---- MODULE Spec2Model ----
(***************************************************************************)
(* A model of git-diff's visit::Changes::to_obtain_tree                    *)
(* (src/git-diff/src/visit/changes.rs): the loop over the entries of two   *)
(* trees, the calls it makes on the delegate (update_path_component and    *)
(* record) and the way the call ends.  One action is one iteration of the  *)
(* `loop` at line 48, one action per arm of its `match`.                   *)
(***************************************************************************)
EXTENDS Integers, Sequences, FiniteSets, TLC

\* ------------------------------------------------------------------------
\* Bounds of the checked inputs
\* ------------------------------------------------------------------------

\* the largest number of entries of an input tree
MaxLen == 2

\* object ids are 1..MaxOid
MaxOid == 2

Oids == 1..MaxOid

\* entry names, as byte strings: "a", "a." and "z"
Names == { <<97>>, <<97, 46>>, <<122>> }

\* the entry modes the input trees are built from
Modes == { "Tree", "Blob", "BlobExecutable" }

\* ------------------------------------------------------------------------
\* Types the code uses
\* ------------------------------------------------------------------------

\* tree::EntryMode
EntryMode == { "Tree", "Blob", "BlobExecutable", "Link", "Commit" }

is_tree(mode) == mode = "Tree"

is_no_tree(mode) == ~ is_tree(mode)

\* Option<T>: None is the empty sequence, Some(v) the sequence of v alone
None == << >>

Some(v) == << v >>

\* immutable::Tree::empty()
EMPTY_TREE == << >>

\* the byte `/` which the canonical tree-entry order appends to tree names
Separator == 47

\* the return value of the call: Result<(), Error>, an unfinished call, or
\* the panic of a todo!()
Running == [kind |-> "running", detail |-> "", oid |-> 0]

OkUnit == [kind |-> "Ok", detail |-> "", oid |-> 0]

ErrCancelled == [kind |-> "Err", detail |-> "Cancelled", oid |-> 0]

ErrNotFound(o) == [kind |-> "Err", detail |-> "NotFound", oid |-> o]

Todo(msg) == [kind |-> "panic", detail |-> msg, oid |-> 0]

\* visit::record::Action, the answer of Record::record
Continue == "Continue"

Cancel == "Cancel"

Action == { Continue, Cancel }

\* ------------------------------------------------------------------------
\* Orderings
\* ------------------------------------------------------------------------

Min(a, b) == IF a <= b THEN a ELSE b

\* the first index in 1..n at which a and b differ, n + 1 if there is none
RECURSIVE FirstDiff(_, _, _, _)
FirstDiff(a, b, i, n) ==
    IF i > n THEN n + 1
    ELSE IF a[i] # b[i] THEN i
    ELSE FirstDiff(a, b, i + 1, n)

\* lhs.filename.cmp(rhs.filename): the lexicographic order of byte strings
Cmp(a, b) ==
    LET n == Min(Len(a), Len(b))
        d == FirstDiff(a, b, 1, n)
    IN  IF d <= n
        THEN IF a[d] < b[d] THEN "Less" ELSE "Greater"
        ELSE IF Len(a) < Len(b) THEN "Less"
        ELSE IF Len(a) > Len(b) THEN "Greater"
        ELSE "Equal"

\* the name an entry is ordered by: a tree's name carries a trailing `/`
OrderName(e) == IF is_tree(e.mode) THEN Append(e.filename, Separator) ELSE e.filename

\* the canonical tree-entry order
EntryLess(e, f) == Cmp(OrderName(e), OrderName(f)) = "Less"

\* ------------------------------------------------------------------------
\* Inputs
\* ------------------------------------------------------------------------

Entries == [filename : Names, mode : Modes, oid : Oids]

\* entries unique by filename and in the canonical order
IsTree(t) ==
    /\ \A i, j \in 1..Len(t) : i < j => t[i].filename # t[j].filename
    /\ \A i \in 1..(Len(t) - 1) : EntryLess(t[i], t[i + 1])

Trees == { t \in UNION { [1..n -> Entries] : n \in 0..MaxLen } : IsTree(t) }

\* the two sub-trees of the object database
SubTreeX == << [filename |-> <<120>>, mode |-> "Blob", oid |-> 2] >>

SubTreeXY == << [filename |-> <<120>>, mode |-> "Blob", oid |-> 1],
                [filename |-> <<121>>, mode |-> "Blob", oid |-> 2] >>

\* an object database with the trees 1 and 2, and one in which 2 is missing
AllFound == [o \in Oids |-> IF o = 1 THEN Some(SubTreeX)
                            ELSE IF o = 2 THEN Some(SubTreeXY) ELSE None]

OneMissing == [o \in Oids |-> IF o = 1 THEN Some(SubTreeX) ELSE None]

Databases == { AllFound, OneMissing }

\* ------------------------------------------------------------------------
\* State
\* ------------------------------------------------------------------------

VARIABLES
    self0,        \* self.0: Option<&Tree>, the source tree
    other,        \* the target tree
    objects,      \* what _locate finds: oid -> Option<Tree>
    lhs_entries,  \* the iterator over lhs.entries: the index of its next item
    rhs_entries,  \* the iterator over rhs.entries: the index of its next item
    path_id,      \* the path identity counter
    calls,        \* the calls made on the delegate so far, in order
    result,       \* how the call ended, Running until then
    state,        \* _state: &mut visit::State, the scratch buffer of the caller
    located       \* the object ids _locate was called with so far, in order

\* the state of two calls that run interleaved, by call
VARIABLES
    sources,      \* self.0 of each call
    targets,      \* other of each call
    frames        \* the locals of each call, as in InitCall, and its delegate's calls

\* a configuration file and the last access to it
VARIABLES
    parsed,       \* the File as it was parsed
    file,         \* the File: its sections in the order they were added
    access        \* the last call on the file: what was asked and what it returned

\* two Readers over one decompressed stream, and what their callers got
VARIABLES
    stream,         \* the decompressed bytes of the object, header first
    header_size,    \* the header_size both Readers were made with
    file_reader,    \* Reader::File: header_size_left and how far the inflate reader is
    buffer_reader,  \* Reader::Buffer: the slice that is left, None if from_data panicked
    buf,            \* the caller's buffer of the read on the File reader under way
    pc,             \* where that read is: "ready" between calls, "loop" in its while loop
    returned,       \* what the last read of either Reader returned
    payload         \* the bytes the reads of either Reader handed out so far

\* a configuration key and what the Key implementations made of it
VARIABLES
    key_input,    \* the bytes of the key
    key_output    \* by implementation: None, or the three parts it returned

key_vars == << key_input, key_output >>

\* a path component, the options it is validated under, and the verdict
VARIABLES
    input,           \* the component, as its code points
    component_mode,  \* mode: Option<component::Mode>
    opts,            \* component::Options
    validated        \* None, or what gix_validate::path::component returned

path_vars == << input, component_mode, opts, validated >>

\* git-transport http Transport: its url, protocol version, the service set
\* by a handshake, what its packet line reader and writer are attached to,
\* how many POSTs it issued through its Http implementation, the GET request
\* it issued last, and the last call on it with what the call returned
VARIABLES url, version, service, line_reader, line_writer, posts, last_get, call, response

http_vars == << url, version, service, line_reader, line_writer, posts, last_get, call,
               response >>

diff_vars == << self0, other, objects, lhs_entries, rhs_entries, path_id, calls, result,
               state, located >>

pair_vars == << sources, targets, frames >>

config_vars == << parsed, file, access >>

reader_vars == << stream, header_size, file_reader, buffer_reader, buf, pc, returned, payload >>

vars == << diff_vars, pair_vars, config_vars, reader_vars, key_vars, path_vars, http_vars >>

\* what a call of to_obtain_tree does not touch
outside_diff == << pair_vars, config_vars, reader_vars, key_vars, path_vars, http_vars >>

\* what a step of the two interleaved calls does not touch
outside_pair == << diff_vars, config_vars, reader_vars, key_vars, path_vars, http_vars >>

\* what a call on a configuration file does not touch
outside_config == << diff_vars, pair_vars, reader_vars, key_vars, path_vars, http_vars >>

\* what a read does not touch
outside_reader == << diff_vars, pair_vars, config_vars, key_vars, path_vars, http_vars >>

\* what parsing a key does not touch
outside_key == << diff_vars, pair_vars, config_vars, reader_vars, path_vars, http_vars >>

\* what validating a path component does not touch
outside_path == << diff_vars, pair_vars, config_vars, reader_vars, key_vars, http_vars >>

\* what a call on the http Transport does not touch
outside_http == << diff_vars, pair_vars, config_vars, reader_vars, key_vars, path_vars >>

\* no pair of calls
PairIdle == sources = << >> /\ targets = << >> /\ frames = << >>

\* no configuration file
ConfigIdle == parsed = << >> /\ file = << >> /\ access = << >>

\* no Reader
ReaderIdle ==
    /\ stream = << >> /\ header_size = 0 /\ file_reader = << >> /\ buffer_reader = << >>
    /\ buf = << >> /\ pc = "ready" /\ returned = << >> /\ payload = << >>

\* no key
KeyIdle == key_input = << >> /\ key_output = << >>

\* no path component
PathIdle == input = << >> /\ component_mode = << >> /\ opts = << >> /\ validated = << >>

\* no Transport
HttpIdle ==
    /\ url = << >> /\ version = << >> /\ service = << >> /\ line_reader = << >>
    /\ line_writer = << >> /\ posts = << >> /\ last_get = << >> /\ call = << >>
    /\ response = << >>

\* lhs with the target tree as the default of a missing source tree
lhsDefaultsToOther == IF self0 = None THEN other ELSE self0[1]

\* let lhs = *self.0.as_ref().unwrap_or(&&EMPTY_TREE);
lhs == IF self0 = None THEN EMPTY_TREE ELSE self0[1]

\* let rhs = other;
rhs == other

Init ==
    /\ self0 \in { None } \cup { Some(t) : t \in Trees }
    /\ other \in Trees
    /\ objects \in Databases
    /\ lhs_entries = 1
    /\ rhs_entries = 1
    /\ path_id = 0
    /\ calls = << >>
    /\ result = Running
    /\ state = << >>
    /\ located = << >>
    /\ PairIdle
    /\ ConfigIdle
    /\ ReaderIdle
    /\ KeyIdle
    /\ PathIdle
    /\ HttpIdle

\* ------------------------------------------------------------------------
\* The delegate
\* ------------------------------------------------------------------------

\* PathComponent::new(name, &mut path_id): the component and the counter after
PathComponentNew(name, id) ==
    [component |-> [name |-> name, id |-> id], path_id |-> id + 1]

\* delegate.update_path_component(component, PathComponentUpdateMode::Replace)
UpdatePathComponent(component) ==
    [op |-> "update_path_component", component |-> component, mode |-> "Replace"]

\* delegate.record(change), with the Action it returned
Record(change, ret) == [op |-> "record", change |-> change, ret |-> ret]

Deletion(e, id) ==
    [kind |-> "Deletion", entry_mode |-> e.mode, oid |-> e.oid, path_id |-> id]

\* an Addition that carries the null hash in place of the entry's
AdditionWithNullHash(e, id) ==
    [kind |-> "Addition", entry_mode |-> e.mode, oid |-> 0, path_id |-> id]

Addition(e, id) ==
    [kind |-> "Addition", entry_mode |-> e.mode, oid |-> e.oid, path_id |-> id]

\* a Modification with the two sides exchanged
ModificationSwapped(l, r, id) ==
    [kind |-> "Modification", previous_entry_mode |-> r.mode, previous_oid |-> r.oid,
     entry_mode |-> l.mode, oid |-> l.oid, path_id |-> id]

Modification(l, r, id) ==
    [kind |-> "Modification", previous_entry_mode |-> l.mode, previous_oid |-> l.oid,
     entry_mode |-> r.mode, oid |-> r.oid, path_id |-> id]

\* record_result.cancelled()
cancelled(ret) == ret = Cancel

\* ------------------------------------------------------------------------
\* to_obtain_tree
\* ------------------------------------------------------------------------

\* lhs_entries.next() and rhs_entries.next()
LhsNext == IF lhs_entries <= Len(lhs) THEN Some(lhs[lhs_entries]) ELSE None

RhsNext == IF rhs_entries <= Len(rhs) THEN Some(rhs[rhs_entries]) ELSE None

\* the condition of lines 61-62 under which a Deletion is recorded
RecordsDeletion(l, r) ==
    \/ (is_no_tree(l.mode) /\ is_tree(r.mode))
    \/ (is_tree(r.mode) /\ is_no_tree(r.mode))

\* match (lhs.mode, rhs.mode) of lines 82-87
RecurseMatch(lmode, rmode) ==
    IF lmode = "Tree" /\ rmode = "Tree" THEN Todo("recurse tree|tree")
    ELSE IF rmode = "Tree" /\ ~ is_tree(lmode) THEN Todo("recurse non-tree|tree")
    ELSE IF lmode = "Tree" /\ ~ is_tree(rmode) THEN Todo("recurse tree|non-tree")
    ELSE Running

\* (None, None) => break Ok(())
BothExhausted ==
    /\ result = Running
    /\ LhsNext = None /\ RhsNext = None
    /\ result' = OkUnit
    /\ UNCHANGED << state, located, self0, other, objects, lhs_entries, rhs_entries, path_id, calls >>
    /\ UNCHANGED outside_diff

\* EqualNames without the comparison of line 56: the entry is reported
\* whether or not its hash or mode differ
EqualNamesAlwaysRecording ==
    /\ result = Running
    /\ LhsNext # None /\ RhsNext # None
    /\ LET l == LhsNext[1]
           r == RhsNext[1]
       IN  /\ Cmp(l.filename, r.filename) = "Equal"
           /\ \E ret \in Action :
                 LET new == PathComponentNew(l.filename, path_id)
                     change == IF RecordsDeletion(l, r)
                               THEN Deletion(l, new.path_id)
                               ELSE Modification(l, r, new.path_id)
                 IN  /\ path_id' = new.path_id
                     /\ calls' = calls \o << UpdatePathComponent(new.component),
                                             Record(change, ret) >>
                     /\ result' = IF cancelled(ret) THEN ErrCancelled
                                  ELSE RecurseMatch(l.mode, r.mode)
    /\ lhs_entries' = lhs_entries + 1
    /\ rhs_entries' = rhs_entries + 1
    /\ UNCHANGED << state, located, self0, other, objects >>
    /\ UNCHANGED outside_diff

\* (Some(lhs), Some(rhs)), Equal
EqualNames ==
    /\ result = Running
    /\ LhsNext # None /\ RhsNext # None
    /\ LET l == LhsNext[1]
           r == RhsNext[1]
       IN  /\ Cmp(l.filename, r.filename) = "Equal"
           /\ IF l.oid # r.oid \/ l.mode # r.mode
              THEN \E ret \in Action :
                     LET new == PathComponentNew(l.filename, path_id)
                         change == IF RecordsDeletion(l, r)
                                   THEN Deletion(l, new.path_id)
                                   ELSE Modification(l, r, new.path_id)
                     IN  /\ path_id' = new.path_id
                         /\ calls' = calls \o << UpdatePathComponent(new.component),
                                                 Record(change, ret) >>
                         /\ result' = IF cancelled(ret) THEN ErrCancelled
                                      ELSE RecurseMatch(l.mode, r.mode)
              ELSE /\ result' = RecurseMatch(l.mode, r.mode)
                   /\ UNCHANGED << path_id, calls >>
    /\ lhs_entries' = lhs_entries + 1
    /\ rhs_entries' = rhs_entries + 1
    /\ UNCHANGED << state, located, self0, other, objects >>
    /\ UNCHANGED outside_diff

\* (Some(lhs), Some(rhs)), Less => todo!()
LessCatchUp ==
    /\ result = Running
    /\ LhsNext # None /\ RhsNext # None
    /\ Cmp(LhsNext[1].filename, RhsNext[1].filename) = "Less"
    /\ result' = Todo("entry compares less - catch up")
    /\ lhs_entries' = lhs_entries + 1
    /\ rhs_entries' = rhs_entries + 1
    /\ UNCHANGED << state, located, self0, other, objects, path_id, calls >>
    /\ UNCHANGED outside_diff

\* (Some(lhs), Some(rhs)), Greater => todo!()
GreaterCatchUp ==
    /\ result = Running
    /\ LhsNext # None /\ RhsNext # None
    /\ Cmp(LhsNext[1].filename, RhsNext[1].filename) = "Greater"
    /\ result' = Todo("entry compares more - let the other side catch up")
    /\ lhs_entries' = lhs_entries + 1
    /\ rhs_entries' = rhs_entries + 1
    /\ UNCHANGED << state, located, self0, other, objects, path_id, calls >>
    /\ UNCHANGED outside_diff

\* LhsRemaining with a counter that is passed by value: the increment is lost
LhsRemainingStaleId ==
    /\ result = Running
    /\ LhsNext # None /\ RhsNext = None
    /\ \E ret \in Action :
         LET new == PathComponentNew(LhsNext[1].filename, path_id)
         IN  /\ path_id' = path_id
             /\ calls' = calls \o << UpdatePathComponent(new.component),
                                     Record(Deletion(LhsNext[1], new.path_id), ret) >>
             /\ result' = IF cancelled(ret) THEN ErrCancelled ELSE Running
    /\ lhs_entries' = lhs_entries + 1
    /\ UNCHANGED << state, located, self0, other, objects, rhs_entries >>
    /\ UNCHANGED outside_diff

\* LhsRemaining with an iterator that is not advanced
LhsRemainingNotAdvancing ==
    /\ result = Running
    /\ LhsNext # None /\ RhsNext = None
    /\ \E ret \in Action :
         LET new == PathComponentNew(LhsNext[1].filename, path_id)
         IN  /\ path_id' = new.path_id
             /\ calls' = calls \o << UpdatePathComponent(new.component),
                                     Record(Deletion(LhsNext[1], new.path_id), ret) >>
             /\ result' = IF cancelled(ret) THEN ErrCancelled ELSE Running
    /\ UNCHANGED << state, located, self0, other, objects, lhs_entries, rhs_entries >>
    /\ UNCHANGED outside_diff

\* LhsRemaining that reports the source entry as an Addition
LhsRemainingAsAddition ==
    /\ result = Running
    /\ LhsNext # None /\ RhsNext = None
    /\ \E ret \in Action :
         LET new == PathComponentNew(LhsNext[1].filename, path_id)
         IN  /\ path_id' = new.path_id
             /\ calls' = calls \o << UpdatePathComponent(new.component),
                                     Record(Addition(LhsNext[1], new.path_id), ret) >>
             /\ result' = IF cancelled(ret) THEN ErrCancelled ELSE Running
    /\ lhs_entries' = lhs_entries + 1
    /\ UNCHANGED << state, located, self0, other, objects, rhs_entries >>
    /\ UNCHANGED outside_diff

\* (Some(lhs), None)
LhsRemaining ==
    /\ result = Running
    /\ LhsNext # None /\ RhsNext = None
    /\ \E ret \in Action :
         LET new == PathComponentNew(LhsNext[1].filename, path_id)
         IN  /\ path_id' = new.path_id
             /\ calls' = calls \o << UpdatePathComponent(new.component),
                                     Record(Deletion(LhsNext[1], new.path_id), ret) >>
             /\ result' = IF cancelled(ret) THEN ErrCancelled ELSE Running
    /\ lhs_entries' = lhs_entries + 1
    /\ UNCHANGED << state, located, self0, other, objects, rhs_entries >>
    /\ UNCHANGED outside_diff

\* RhsRemaining without the check of lines 120-123: a cancelled record does
\* not end the loop
RhsRemainingNoCancelCheck ==
    /\ result = Running
    /\ LhsNext = None /\ RhsNext # None
    /\ \E ret \in Action :
         LET new == PathComponentNew(RhsNext[1].filename, path_id)
         IN  /\ path_id' = new.path_id
             /\ calls' = calls \o << UpdatePathComponent(new.component),
                                     Record(Addition(RhsNext[1], new.path_id), ret) >>
             /\ result' = Running
    /\ rhs_entries' = rhs_entries + 1
    /\ UNCHANGED << state, located, self0, other, objects, lhs_entries >>
    /\ UNCHANGED outside_diff

\* RhsRemaining that records the Addition without setting the path component
RhsRemainingNoUpdate ==
    /\ result = Running
    /\ LhsNext = None /\ RhsNext # None
    /\ \E ret \in Action :
         LET new == PathComponentNew(RhsNext[1].filename, path_id)
         IN  /\ path_id' = new.path_id
             /\ calls' = Append(calls, Record(Addition(RhsNext[1], new.path_id), ret))
             /\ result' = IF cancelled(ret) THEN ErrCancelled ELSE Running
    /\ rhs_entries' = rhs_entries + 1
    /\ UNCHANGED << state, located, self0, other, objects, lhs_entries >>
    /\ UNCHANGED outside_diff

\* RhsRemaining with an iterator that is not advanced
RhsRemainingNotAdvancing ==
    /\ result = Running
    /\ LhsNext = None /\ RhsNext # None
    /\ \E ret \in Action :
         LET new == PathComponentNew(RhsNext[1].filename, path_id)
         IN  /\ path_id' = new.path_id
             /\ calls' = calls \o << UpdatePathComponent(new.component),
                                     Record(Addition(RhsNext[1], new.path_id), ret) >>
             /\ result' = IF cancelled(ret) THEN ErrCancelled ELSE Running
    /\ UNCHANGED << state, located, self0, other, objects, lhs_entries, rhs_entries >>
    /\ UNCHANGED outside_diff

\* (None, Some(rhs))
RhsRemaining ==
    /\ result = Running
    /\ LhsNext = None /\ RhsNext # None
    /\ \E ret \in Action :
         LET new == PathComponentNew(RhsNext[1].filename, path_id)
         IN  /\ path_id' = new.path_id
             /\ calls' = calls \o << UpdatePathComponent(new.component),
                                     Record(Addition(RhsNext[1], new.path_id), ret) >>
             /\ result' = IF cancelled(ret) THEN ErrCancelled ELSE Running
    /\ rhs_entries' = rhs_entries + 1
    /\ UNCHANGED << state, located, self0, other, objects, lhs_entries >>
    /\ UNCHANGED outside_diff

Next ==
    \/ BothExhausted
    \/ EqualNames
    \/ LessCatchUp
    \/ GreaterCatchUp
    \/ LhsRemaining
    \/ RhsRemaining

Spec == Init /\ [][Next]_vars

TypeOK ==
    /\ lhs_entries \in 1..(Len(lhs) + 1)
    /\ rhs_entries \in 1..(Len(rhs) + 1)
    /\ path_id \in 0..(Len(lhs) + Len(rhs))
    /\ result.kind \in { "running", "Ok", "Err", "panic" }

\* ------------------------------------------------------------------------
\* One call as a function of its inputs
\* ------------------------------------------------------------------------

\* the locals of a call at its start: lines 44-46
InitCall ==
    [lhs_entries |-> 1, rhs_entries |-> 1, path_id |-> 0, calls |-> << >>, result |-> Running]

\* update_path_component and record of one entry, and the check of the answer
Deliver(st, name, change_of, ret, go_on) ==
    LET new == PathComponentNew(name, st.path_id)
    IN  [st EXCEPT !.path_id = new.path_id,
                   !.calls = st.calls \o << UpdatePathComponent(new.component),
                                            Record(change_of[new.path_id], ret) >>,
                   !.result = IF cancelled(ret) THEN ErrCancelled ELSE go_on]

\* one iteration of the loop of lines 48-126 on the trees l and r, when the
\* delegate answers ret
Iteration(l, r, st, ret) ==
    LET ln == IF st.lhs_entries <= Len(l) THEN Some(l[st.lhs_entries]) ELSE None
        rn == IF st.rhs_entries <= Len(r) THEN Some(r[st.rhs_entries]) ELSE None
        ids == 0..(st.path_id + 1)
    IN  IF ln = None /\ rn = None THEN [st EXCEPT !.result = OkUnit]
        ELSE IF ln # None /\ rn = None
        THEN [Deliver(st, ln[1].filename, [i \in ids |-> Deletion(ln[1], i)], ret, Running)
                EXCEPT !.lhs_entries = st.lhs_entries + 1]
        ELSE IF ln = None /\ rn # None
        THEN [Deliver(st, rn[1].filename, [i \in ids |-> Addition(rn[1], i)], ret, Running)
                EXCEPT !.rhs_entries = st.rhs_entries + 1]
        ELSE LET e == ln[1]
                 f == rn[1]
                 both == [st EXCEPT !.lhs_entries = st.lhs_entries + 1,
                                    !.rhs_entries = st.rhs_entries + 1]
             IN  IF Cmp(e.filename, f.filename) = "Less"
                 THEN [both EXCEPT !.result = Todo("entry compares less - catch up")]
                 ELSE IF Cmp(e.filename, f.filename) = "Greater"
                 THEN [both EXCEPT
                         !.result = Todo("entry compares more - let the other side catch up")]
                 ELSE IF e.oid # f.oid \/ e.mode # f.mode
                 THEN Deliver(both, e.filename,
                              [i \in ids |-> IF RecordsDeletion(e, f) THEN Deletion(e, i)
                                             ELSE Modification(e, f, i)],
                              ret, RecurseMatch(e.mode, f.mode))
                 ELSE [both EXCEPT !.result = RecurseMatch(e.mode, f.mode)]

\* the call run to its end on l and r from st: the delegate gives the answers
\* in order and continues once they are used up
RECURSIVE RunAlone(_, _, _, _)
RunAlone(l, r, st, answers) ==
    IF st.result # Running THEN st
    ELSE LET ret == IF Len(answers) = 0 THEN Continue ELSE Head(answers)
             next == Iteration(l, r, st, ret)
         IN  RunAlone(l, r, next,
                      IF Len(next.calls) > Len(st.calls) /\ Len(answers) > 0
                      THEN Tail(answers) ELSE answers)

\* ------------------------------------------------------------------------
\* Two calls, interleaved
\* ------------------------------------------------------------------------

CallIds == { "first", "second" }

\* the trees the two calls are given: files "a" and "z" of one hash
PairNames == { <<97>>, <<122>> }

PairModes == { "Blob", "BlobExecutable" }

PairTrees ==
    { t \in Trees : \A i \in 1..Len(t) : /\ t[i].filename \in PairNames
                                         /\ t[i].mode \in PairModes
                                         /\ t[i].oid = 1 }

\* no single call
DiffIdle ==
    /\ self0 = None /\ other = EMPTY_TREE /\ objects = AllFound
    /\ lhs_entries = 1 /\ rhs_entries = 1 /\ path_id = 0
    /\ calls = << >> /\ result = Running
    /\ state = << >> /\ located = << >>

InitTwo ==
    /\ sources \in [CallIds -> { None } \cup { Some(t) : t \in PairTrees }]
    /\ targets \in [CallIds -> PairTrees]
    /\ frames = [c \in CallIds |-> InitCall]
    /\ DiffIdle
    /\ ConfigIdle
    /\ ReaderIdle
    /\ KeyIdle
    /\ PathIdle
    /\ HttpIdle

\* lhs of the call c
FrameLhs(c) == IF sources[c] = None THEN EMPTY_TREE ELSE sources[c][1]

\* an iteration of the call c that takes the identity counter from one place
\* shared by all calls instead of its own local
CallStepSharedCounter(c) ==
    /\ frames[c].result = Running
    /\ \E ret \in Action :
         LET top == CHOOSE n \in { frames[d].path_id : d \in CallIds } :
                        \A d \in CallIds : frames[d].path_id <= n
             next == Iteration(FrameLhs(c), targets[c],
                               [frames[c] EXCEPT !.path_id = top], ret)
         IN  frames' = [d \in CallIds |->
                          IF d = c THEN next ELSE [frames[d] EXCEPT !.path_id = next.path_id]]
    /\ UNCHANGED << sources, targets, outside_pair >>

\* the call c runs one iteration of its loop
CallStep(c) ==
    /\ frames[c].result = Running
    /\ \E ret \in Action :
         frames' = [frames EXCEPT ![c] = Iteration(FrameLhs(c), targets[c], frames[c], ret)]
    /\ UNCHANGED << sources, targets, outside_pair >>

NextTwo == \E c \in CallIds : CallStep(c)

SpecTwo == InitTwo /\ [][NextTwo]_vars

\* ------------------------------------------------------------------------
\* Vocabulary of the properties
\* ------------------------------------------------------------------------

NameA == <<97>>

NameZ == <<122>>

IsRecord(c) == c.op = "record"

\* the indices of the record calls
RecordIndices == { i \in 1..Len(calls) : IsRecord(calls[i]) }

\* the name the record call at i is about: that of the component set before it
NameOf(i) == calls[i - 1].component.name

Finished == result # Running

\* the delegate never asked to stop
NoCancel == \A i \in RecordIndices : calls[i].ret = Continue

CountKind(k) == Cardinality({ i \in RecordIndices : calls[i].change.kind = k })

\* the entries of t with the name n (at most one)
Named(t, n) == { t[i] : i \in { j \in 1..Len(t) : t[j].filename = n } }

\* the record calls after the call at i, in order
RecordsAfter(i) == SelectSeq(SubSeq(calls, i + 1, Len(calls)), IsRecord)

\* every sub-tree entry of t is in the object database
AllResolvable(t) == \A i \in 1..Len(t) : is_tree(t[i].mode) => objects[t[i].oid] # None

\* the number of entries reachable from t by expanding every sub-tree
RECURSIVE FlatCount(_)
FlatCount(t) ==
    IF Len(t) = 0 THEN 0
    ELSE LET e == Head(t)
         IN  1 + (IF is_tree(e.mode) /\ objects[e.oid] # None
                  THEN FlatCount(objects[e.oid][1]) ELSE 0)
               + FlatCount(Tail(t))

\* the names at which the two trees differ
DiffNames == { n \in Names : Named(lhs, n) # Named(rhs, n) }

NoTrees(t) == \A i \in 1..Len(t) : is_no_tree(t[i].mode)

\* the spec's cases of a recursion into the entries l and r of one name
RecursionWarranted(l, r) ==
    \/ is_tree(l.mode) /\ is_tree(r.mode) /\ l.oid # r.oid
    \/ is_no_tree(l.mode) /\ is_tree(r.mode)
    \/ is_tree(l.mode) /\ is_no_tree(r.mode)

\* the sub-trees of l and r that the object database does not hold
MissingOids(l, r) ==
    { e.oid : e \in { x \in { l, r } : is_tree(x.mode) /\ objects[x.oid] = None } }

\* ------------------------------------------------------------------------
\* Properties
\* ------------------------------------------------------------------------

\* C1: Identity. With the same tree as source and target, sub-tree entries
\* included, the call returns Ok(()) and no record call is made.
C1_Identity ==
    self0 = Some(other) =>
        /\ RecordIndices = {}
        /\ result \in { Running, OkUnit }

\* C2: Cancellation stops traversal. A record call that returned Cancel is
\* the last call made on the delegate, and the call has returned
\* Err(Cancelled).
C2_CancellationStopsTraversal ==
    \A i \in RecordIndices :
        calls[i].ret = Cancel => (i = Len(calls) /\ result = ErrCancelled)

\* C2, the case: the first event was cancelled while entries remain
C2_Witness ==
    /\ result = ErrCancelled
    /\ Len(calls) = 2
    /\ calls[2].ret = Cancel
    /\ (lhs_entries <= Len(lhs) \/ rhs_entries <= Len(rhs))

\* C3: Kind change is symmetric. The event recorded for a name that is a tree
\* on exactly one side is a Deletion with the source entry's mode and hash.
C3_KindChangeSymmetric ==
    \A i \in RecordIndices :
        \A l \in Named(lhs, NameOf(i)) : \A r \in Named(rhs, NameOf(i)) :
            is_tree(l.mode) # is_tree(r.mode) =>
                /\ calls[i].change.kind = "Deletion"
                /\ calls[i].change.entry_mode = l.mode
                /\ calls[i].change.oid = l.oid

\* C4: Type-change path. After the Deletion of a file that became a tree of N
\* entries the next N events are the Additions of these entries, and the call
\* goes on with the remaining entries.
C4_TypeChangePath ==
    (Finished /\ NoCancel) =>
        \A i \in RecordIndices :
            \A l \in Named(lhs, NameOf(i)) : \A r \in Named(rhs, NameOf(i)) :
                (is_no_tree(l.mode) /\ is_tree(r.mode) /\ objects[r.oid] # None) =>
                    LET sub == objects[r.oid][1]
                        after == RecordsAfter(i)
                    IN  /\ calls[i].change.kind = "Deletion"
                        /\ result.kind # "panic"
                        /\ Len(after) >= Len(sub)
                        /\ \A k \in 1..Len(sub) :
                              /\ after[k].change.kind = "Addition"
                              /\ after[k].change.entry_mode = sub[k].mode
                              /\ after[k].change.oid = sub[k].oid

\* C5: Sub-tree recursion. For a name that is a tree on both sides with
\* different hashes, both in the object database, no event is recorded for
\* the name itself, and the changes between the two sub-trees are: a
\* Modification for an inner entry whose hash changed, an Addition for an
\* inner entry of the target only.
C5_SubTreeRecursion ==
    (Finished /\ NoCancel) =>
        \A i \in 1..(lhs_entries - 1) : \A j \in 1..(rhs_entries - 1) :
            ( /\ lhs[i].filename = rhs[j].filename
              /\ is_tree(lhs[i].mode) /\ is_tree(rhs[j].mode)
              /\ lhs[i].oid # rhs[j].oid
              /\ objects[lhs[i].oid] # None /\ objects[rhs[j].oid] # None ) =>
                LET s == objects[lhs[i].oid][1]
                    t == objects[rhs[j].oid][1]
                IN  /\ \A c \in RecordIndices : NameOf(c) # lhs[i].filename
                    /\ result.kind # "panic"
                    /\ \A k \in 1..Len(t) :
                          IF Named(s, t[k].filename) = {}
                          THEN \E c \in RecordIndices :
                                 /\ calls[c].change.kind = "Addition"
                                 /\ calls[c].change.oid = t[k].oid
                                 /\ NameOf(c) = t[k].filename
                          ELSE \A o \in Named(s, t[k].filename) :
                                 o # t[k] =>
                                   \E c \in RecordIndices :
                                     /\ calls[c].change.kind = "Modification"
                                     /\ calls[c].change.previous_oid = o.oid
                                     /\ calls[c].change.oid = t[k].oid
                                     /\ NameOf(c) = t[k].filename

\* C6: Additivity from empty. With no or an empty source tree the call
\* records one Addition for every entry reachable in the target tree and
\* nothing else.
C6_AdditivityFromEmpty ==
    (Finished /\ NoCancel /\ Len(lhs) = 0 /\ AllResolvable(rhs)) =>
        /\ result = OkUnit
        /\ CountKind("Addition") = FlatCount(rhs)
        /\ CountKind("Deletion") = 0
        /\ CountKind("Modification") = 0

\* C7: Symmetry of kind. With an empty target tree the call records one
\* Deletion for every entry reachable in the source tree and nothing else.
C7_DeletionToEmpty ==
    (Finished /\ NoCancel /\ Len(rhs) = 0 /\ AllResolvable(lhs)) =>
        /\ result = OkUnit
        /\ CountKind("Deletion") = FlatCount(lhs)
        /\ CountKind("Addition") = 0
        /\ CountKind("Modification") = 0

\* the entry the event at i is about: of the target for an Addition, of the
\* source otherwise
EventEntries(i) ==
    IF calls[i].change.kind = "Addition" THEN Named(rhs, NameOf(i)) ELSE Named(lhs, NameOf(i))

\* C8: Event ordering. Events are recorded in the canonical order of their
\* entries, and two trees of files that differ at "a" and "z" only give two
\* events, "a" first.
C8_EventOrdering ==
    /\ \A i, j \in RecordIndices :
          i < j => \A e \in EventEntries(i) : \A f \in EventEntries(j) : EntryLess(e, f)
    /\ ( /\ Finished /\ NoCancel
         /\ NoTrees(lhs) /\ NoTrees(rhs)
         /\ DiffNames = { NameA, NameZ } ) =>
            /\ Cardinality(RecordIndices) = 2
            /\ \A i, j \in RecordIndices :
                  i < j => (NameOf(i) = NameA /\ NameOf(j) = NameZ)

\* C9: Outcomes. A call ends with Ok(()), Err(Cancelled) or Err(NotFound)
\* and in no other way.
C9_Outcomes ==
    result \in { Running, OkUnit, ErrCancelled } \cup { ErrNotFound(o) : o \in Oids }

\* C10: Missing sub-tree. Once the entries of a name that calls for a
\* recursion have been visited and a sub-tree of theirs is not in the object
\* database, the call has returned Err(NotFound) with the hash of a missing
\* sub-tree, and the event of that name is the last one.
C10_MissingSubTree ==
    NoCancel =>
        \A i \in 1..(lhs_entries - 1) : \A j \in 1..(rhs_entries - 1) :
            ( /\ lhs[i].filename = rhs[j].filename
              /\ RecursionWarranted(lhs[i], rhs[j])
              /\ MissingOids(lhs[i], rhs[j]) # {} ) =>
                /\ result \in { ErrNotFound(o) : o \in MissingOids(lhs[i], rhs[j]) }
                /\ \A c \in RecordIndices :
                      NameOf(c) = lhs[i].filename => c = Len(calls)

\* the calls cs with every answer of the delegate replaced by Continue
Erase(cs) ==
    [i \in 1..Len(cs) |-> IF IsRecord(cs[i]) THEN [cs[i] EXCEPT !.ret = Continue] ELSE cs[i]]

IsPrefix(a, b) == Len(a) <= Len(b) /\ SubSeq(b, 1, Len(a)) = a

\* the call on the same trees with a delegate that never cancels
NeverCancelled == RunAlone(lhs, rhs, InitCall, << >>)

\* C11: No retraction on error. What the delegate received when the call
\* returns an error is a prefix of what a delegate that never cancels
\* receives for the same trees; the error ends the call at once, and no step
\* removes or changes a call already made.
C11_NoRetraction ==
    /\ [](result.kind = "Err" =>
            /\ IsPrefix(Erase(calls), NeverCancelled.calls)
            /\ Len(calls) > 0
            /\ calls[Len(calls)] = Record(calls[Len(calls)].change, Cancel))
    /\ [][IsPrefix(calls, calls')]_vars

\* C11, the case: an event was cancelled and another would have followed
C11_Witness ==
    /\ result = ErrCancelled
    /\ Len(calls) >= 2
    /\ Len(NeverCancelled.calls) > Len(calls)

IsUpdate(c) == c.op = "update_path_component"

\* the mode and hash of the entry a change is about
AboutMode(change) ==
    IF change.kind = "Modification" THEN change.previous_entry_mode ELSE change.entry_mode

AboutOid(change) ==
    IF change.kind = "Modification" THEN change.previous_oid ELSE change.oid

\* C12: Path tracker protocol. Before every record call there is one
\* update_path_component call, with mode Replace and the filename of the entry
\* the change is about, and every update_path_component call is directly
\* followed by a record call.
C12_PathTrackerProtocol ==
    \A i \in 1..Len(calls) :
        IF IsRecord(calls[i])
        THEN /\ i > 1
             /\ IsUpdate(calls[i - 1])
             /\ calls[i - 1].mode = "Replace"
             /\ i > 2 => IsRecord(calls[i - 2])
             /\ \E e \in EventEntries(i) :
                   /\ e.filename = calls[i - 1].component.name
                   /\ e.mode = AboutMode(calls[i].change)
                   /\ e.oid = AboutOid(calls[i].change)
        ELSE /\ IsUpdate(calls[i])
             /\ i < Len(calls)
             /\ IsRecord(calls[i + 1])

\* C12, the case: two events were recorded and the call returned
C12_Witness ==
    /\ result = OkUnit
    /\ Len(calls) >= 4

UpdateIndices == { i \in 1..Len(calls) : IsUpdate(calls[i]) }

\* C13: Path identities. The counter is 0 before the first call on the
\* delegate and never decreases, and every update_path_component call has an
\* identity greater than that of every earlier one.
C13_PathIdentities ==
    /\ [](/\ path_id >= 0
          /\ Len(calls) = 0 => path_id = 0
          /\ \A i, j \in UpdateIndices :
                i < j => calls[i].component.id < calls[j].component.id)
    /\ [][path_id' >= path_id]_vars

\* C13, the case: two identities were issued
C13_Witness ==
    /\ Cardinality(UpdateIndices) = 2
    /\ \E i, j \in UpdateIndices : calls[i].component.id < calls[j].component.id

\* C14: At most one event per path. No two record calls of a call are about
\* the same entry name.
C14_OneEventPerName ==
    \A i, j \in RecordIndices : i # j => NameOf(i) # NameOf(j)

\* C14, the case: two names were modified
C14_Witness ==
    /\ CountKind("Modification") = 2
    /\ \E i, j \in RecordIndices : NameOf(i) # NameOf(j)

\* the answers the delegate gave, in order
Answers(cs) == [i \in 1..(Len(cs) \div 2) |-> cs[2 * i].ret]

\* a source tree that is present and has zero entries
ZeroEntries == [i \in 1..0 |-> 0]

\* the call of a Changes value holding ZeroEntries, with the same delegate
WithZeroEntries == RunAlone(ZeroEntries, rhs, InitCall, Answers(calls))

\* C15: No source tree equals empty source tree. A call without a source tree
\* makes the calls of a call whose source tree has zero entries, and ends
\* with the same result.
C15_NoTreeIsEmptyTree ==
    self0 = None =>
        /\ IsPrefix(calls, WithZeroEntries.calls)
        /\ Finished => (calls = WithZeroEntries.calls /\ result = WithZeroEntries.result)

\* C15, the case: a call without a source tree recorded an entry and returned
C15_Witness ==
    /\ self0 = None
    /\ result = OkUnit
    /\ Len(calls) >= 2

\* a call on the delegate that the observer interface has
IsDelegateCall(c) == c.op \in { "update_path_component", "record" }

\* the call has not ended, or it ended by returning Ok or Err
Returns(r) == r = Running \/ r.kind \in { "Ok", "Err" }

\* C16: Purity. Every step of the call leaves the source tree, the target
\* tree and the objects they refer to unchanged, and what it changes for the
\* caller is nothing but update_path_component and record calls on the
\* delegate and the value the call returns: the caller's State is left as it
\* was, _locate is not called, the delegate gets no other call, and the call
\* ends in no other way than by returning.
C16_Purity ==
    [][ /\ self0' = self0 /\ other' = other /\ objects' = objects
        /\ state' = state
        /\ located' = located
        /\ IsPrefix(calls, calls')
        /\ \A i \in (Len(calls) + 1)..Len(calls') : IsDelegateCall(calls'[i])
        /\ Returns(result') ]_vars

\* the call c of a pair run alone, with the answers its delegate gave
Alone(c) == RunAlone(FrameLhs(c), targets[c], InitCall, Answers(frames[c].calls))

\* C17: Independent calls do not interfere. At every point of an interleaved
\* run each delegate has received a prefix of the calls, path identities
\* included, that its call makes when run alone, and all of them once its
\* call has ended, with the same result.
C17_IndependentCalls ==
    \A c \in CallIds :
        /\ IsPrefix(frames[c].calls, Alone(c).calls)
        /\ frames[c].result # Running => frames[c] = Alone(c)

\* C17, the case: both calls have recorded an event and neither has ended
C17_Witness ==
    \A c \in CallIds : frames[c].result = Running /\ Len(frames[c].calls) = 2

\* ------------------------------------------------------------------------
\* gix-config: a File as the sections it was parsed into
\* ------------------------------------------------------------------------

\* the most sections a file is made of
MaxSections == 2

\* the events of a section body (gix_config::parse::Event)
SectionKey(k) == [event |-> "SectionKey", text |-> k]

KeyValueSeparator == [event |-> "KeyValueSeparator", text |-> "="]

Value(v) == [event |-> "Value", text |-> v]

Whitespace == [event |-> "Whitespace", text |-> " "]

Newline == [event |-> "Newline", text |-> "\n"]

\* the events the parser emits for the line "k = v"
Spaced(k, v) == << SectionKey(k), Whitespace, KeyValueSeparator, Whitespace, Value(v), Newline >>

\* the events the parser emits for the line "k=v"
Compact(k, v) == << SectionKey(k), KeyValueSeparator, Value(v), Newline >>

\* the events the parser emits for the line "k": a key without a separator
\* gets an empty Value and no KeyValueSeparator
Implicit(k) == << SectionKey(k), Value(""), Newline >>

\* the section bodies files are written from: a key with a value, without
\* one, another key only, and two or three lines in one section
Bodies ==
    { Spaced("a", "x"),
      Implicit("a"),
      Compact("b", "y"),
      Compact("b", "y") \o Compact("a", "y"),
      Spaced("a", "x") \o Implicit("a"),
      Compact("a", "y") \o Spaced("a", "x") \o Compact("b", "y") }

\* section::Metadata, as far as a MetadataFilter looks at it: the trust level
Trusts == { "Full", "Reduced" }

\* the headers [core] and [core "s"], with the trust of the file they are from
Headers ==
    { [name |-> "core", subsection_name |-> None, meta |-> "Full"],
      [name |-> "core", subsection_name |-> None, meta |-> "Reduced"],
      [name |-> "core", subsection_name |-> Some("s"), meta |-> "Full"] }

\* a section: a header and the lines under it
Section(h, b) ==
    [name |-> h.name, subsection_name |-> h.subsection_name, meta |-> h.meta, body |-> b]

\* the sections files are written from: five bodies under [core] with full
\* trust, two under [core] with reduced trust, and one under [core "s"]
Sections ==
    { Section(h, b) : h \in { h \in Headers : h.subsection_name = None /\ h.meta = "Full" },
                      b \in Bodies \ { Compact("b", "y") \o Compact("a", "y") } }
        \cup { Section(h, b) :
                   h \in { h \in Headers : h.meta = "Reduced" },
                   b \in { Spaced("a", "x"), Compact("b", "y") \o Compact("a", "y") } }
        \cup { Section(h, Compact("b", "y") \o Compact("a", "y")) :
                   h \in { h \in Headers : h.subsection_name # None } }

\* files of up to MaxSections sections, in the order they are written in
Files == UNION { [1..n -> Sections] : n \in 0..MaxSections }

\* Key: section_name, subsection_name and name of e.g. "core.s.a"
AsKey(s, sub, n) == [section_name |-> s, subsection_name |-> sub, name |-> n]

Keys == { AsKey("core", None, "a"), AsKey("core", None, "b"), AsKey("core", Some("s"), "a") }

\* a MetadataFilter, as the trust levels it accepts; |_| true accepts all
AcceptAll == Trusts

Filters == { AcceptAll, { "Full" } }

\* filter(section.meta())
filter(f, meta) == meta \in f

\* Result<T, lookup::existing::Error>
Ok(v) == [ok |-> TRUE, value |-> v]

Err(e) == [ok |-> FALSE, value |-> e]

KeyMissing == Err("KeyMissing")

\* ------------------------------------------------------------------------
\* gix-config: what a lookup reads from one section body
\* ------------------------------------------------------------------------

\* the position of the last SectionKey(key) of the body, 0 without one
LastKey(body, key) ==
    LET at == { i \in 1..Len(body) : body[i] = SectionKey(key) }
    IN  IF at = { } THEN 0 ELSE CHOOSE i \in at : \A j \in at : j <= i

\* the position of the Value that belongs to the key at position i: the
\* first Value after it, 0 without one
ValueOfKey(body, i) ==
    LET at == { j \in (i + 1)..Len(body) : body[j].event = "Value" }
    IN  IF at = { } THEN 0 ELSE CHOOSE j \in at : \A l \in at : j <= l

\* Body::value_implicit: None without the key, Some(None) when the last
\* occurrence of the key has its Value right behind it, that is no
\* separator, and Some(Some(value)) otherwise
value_implicit(body, key) ==
    LET key_start == LastKey(body, key)
        value_at == ValueOfKey(body, key_start)
    IN  IF key_start = 0 THEN None
        ELSE IF value_at = 0 \/ value_at = key_start + 1 THEN Some(None)
        ELSE Some(Some(body[value_at].text))

\* Body::value: value_implicit(key).flatten()
value(body, key) ==
    LET found == value_implicit(body, key)
    IN  IF found = None THEN None ELSE found[1]

\* Body::values from event i on: every Value that follows an occurrence of
\* the key, the empty one of a key without separator included
RECURSIVE ValuesFrom(_, _, _, _)
ValuesFrom(body, key, i, expect_value) ==
    IF i > Len(body) THEN << >>
    ELSE IF body[i] = SectionKey(key) THEN ValuesFrom(body, key, i + 1, TRUE)
    ELSE IF body[i].event = "Value" /\ expect_value
         THEN << body[i].text >> \o ValuesFrom(body, key, i + 1, FALSE)
    ELSE ValuesFrom(body, key, i + 1, expect_value)

\* Body::values
values(body, key) == ValuesFrom(body, key, 1, FALSE)

\* the last element of a non-empty list
Last(s) == s[Len(s)]

\* a sequence back to front: Iterator::rev
Rev(s) == [i \in 1..Len(s) |-> s[Len(s) + 1 - i]]

\* File::section_ids_by_name_and_subname: the ids of the sections under the
\* header, in the order they were added; an id is the place in the file
section_ids_by_name_and_subname(f, section_name, subsection_name) ==
    LET all == [i \in 1..Len(f) |-> i]
        named(i) == f[i].name = section_name
        under(i) == named(i) /\ f[i].subsection_name = subsection_name
    IN  IF SelectSeq(all, named) = << >> THEN Err("SectionMissing")
        ELSE IF SelectSeq(all, under) = << >> THEN Err("SubSectionMissing")
        ELSE Ok(SelectSeq(all, under))

\* ------------------------------------------------------------------------
\* gix-config: File::raw_value*, raw_values*, set_existing_raw_value
\* ------------------------------------------------------------------------

\* for section_id in section_ids.rev() { ... } Err(KeyMissing)
RECURSIVE ValueLoop(_, _, _, _)
ValueLoop(f, section_ids, key, flt) ==
    IF section_ids = << >> THEN KeyMissing
    ELSE LET section == f[Head(section_ids)]
         IN  IF ~filter(flt, section.meta) THEN ValueLoop(f, Tail(section_ids), key, flt)
             ELSE IF value(section.body, key.name) # None
                  THEN Ok(value(section.body, key.name)[1])
             ELSE ValueLoop(f, Tail(section_ids), key, flt)

\* raw_value_filter_inner that does not ask the filter
raw_value_filter_innerUnfiltered(f, key, flt) ==
    LET section_ids == section_ids_by_name_and_subname(f, key.section_name, key.subsection_name)
    IN  IF ~section_ids.ok THEN section_ids
        ELSE ValueLoop(f, Rev(section_ids.value), key, AcceptAll)

\* raw_value_filter_inner
raw_value_filter_inner(f, key, flt) ==
    LET section_ids == section_ids_by_name_and_subname(f, key.section_name, key.subsection_name)
    IN  IF ~section_ids.ok THEN section_ids
        ELSE ValueLoop(f, Rev(section_ids.value), key, flt)

\* raw_value_filter
raw_value_filter(f, key, flt) == raw_value_filter_inner(f, key, flt)

\* raw_value
raw_value(f, key) == raw_value_filter(f, key, AcceptAll)

\* for section_id in section_ids { ... values.extend(section.values(key.name())) }
RECURSIVE Extend(_, _, _, _)
Extend(f, section_ids, key, flt) ==
    IF section_ids = << >> THEN << >>
    ELSE LET section == f[Head(section_ids)]
         IN  IF ~filter(flt, section.meta) THEN Extend(f, Tail(section_ids), key, flt)
             ELSE values(section.body, key.name) \o Extend(f, Tail(section_ids), key, flt)

\* raw_values_filter_inner that walks the sections from the last to the first
raw_values_filter_innerReversed(f, key, flt) ==
    LET section_ids == section_ids_by_name_and_subname(f, key.section_name, key.subsection_name)
    IN  IF ~section_ids.ok THEN section_ids
        ELSE IF Extend(f, Rev(section_ids.value), key, flt) = << >> THEN KeyMissing
        ELSE Ok(Extend(f, Rev(section_ids.value), key, flt))

\* raw_values_filter_inner
raw_values_filter_inner(f, key, flt) ==
    LET section_ids == section_ids_by_name_and_subname(f, key.section_name, key.subsection_name)
    IN  IF ~section_ids.ok THEN section_ids
        ELSE IF Extend(f, section_ids.value, key, flt) = << >> THEN KeyMissing
        ELSE Ok(Extend(f, section_ids.value, key, flt))

\* raw_values_filter
raw_values_filter(f, key, flt) == raw_values_filter_inner(f, key, flt)

\* raw_values
raw_values(f, key) == raw_values_filter(f, key, AcceptAll)

\* for (i, event) in section.as_ref().iter().enumerate() { match event ... }:
\* the locals index, size and found_key after the events from i on, where
\* index counts from 0 as in the source
RECURSIVE Scan(_, _, _, _)
Scan(body, key, i, at) ==
    IF i > Len(body) THEN at
    ELSE IF body[i] = SectionKey(key)
         THEN Scan(body, key, i + 1, [index |-> i - 1, size |-> 1, found_key |-> TRUE])
    ELSE IF body[i].event \in { "Newline", "Whitespace", "ValueNotDone" } /\ at.found_key
         THEN Scan(body, key, i + 1, [at EXCEPT !.size = @ + 1])
    ELSE IF body[i].event \in { "ValueDone", "Value" } /\ at.found_key
         THEN Scan(body, key, i + 1, [at EXCEPT !.size = @ + 1, !.found_key = FALSE])
    ELSE IF body[i].event = "KeyValueSeparator" /\ at.found_key
         THEN Scan(body, key, i + 1, [at EXCEPT !.size = @ + 1])
    ELSE Scan(body, key, i + 1, at)

\* let mut index = 0; let mut size = 0; let mut found_key = false; for ...
Located(body, key) == Scan(body, key, 1, [index |-> 0, size |-> 0, found_key |-> FALSE])

\* while let Some(section_id) = section_ids.next() { ... } Err(KeyMissing)
RECURSIVE MutLoop(_, _, _, _)
MutLoop(f, section_ids, key, flt) ==
    IF section_ids = << >> THEN KeyMissing
    ELSE LET section_id == Head(section_ids)
             section == f[section_id]
         IN  IF ~filter(flt, section.meta) THEN MutLoop(f, Tail(section_ids), key, flt)
             ELSE IF Located(section.body, key.name).size = 0
                  THEN MutLoop(f, Tail(section_ids), key, flt)
             ELSE Ok([section |-> section_id, key |-> key.name,
                      index |-> Located(section.body, key.name).index,
                      size |-> Located(section.body, key.name).size])

\* raw_value_mut_filter_inner that walks the sections from the first to the last
raw_value_mut_filter_innerForward(f, key, flt) ==
    LET section_ids == section_ids_by_name_and_subname(f, key.section_name, key.subsection_name)
    IN  IF ~section_ids.ok THEN section_ids
        ELSE MutLoop(f, section_ids.value, key, flt)

\* raw_value_mut_filter_inner: the ValueMut of the last occurrence of the key
raw_value_mut_filter_inner(f, key, flt) ==
    LET section_ids == section_ids_by_name_and_subname(f, key.section_name, key.subsection_name)
    IN  IF ~section_ids.ok THEN section_ids
        ELSE MutLoop(f, Rev(section_ids.value), key, flt)

\* raw_value_mut
raw_value_mut(f, key) == raw_value_mut_filter_inner(f, key, AcceptAll)

\* ValueMut::set: the size events from index on go, and key, separator and
\* the new value take their place
set(body, entry, new_value) ==
    SubSeq(body, 1, entry.index)
        \o << SectionKey(entry.key), KeyValueSeparator, Value(new_value) >>
        \o SubSeq(body, entry.index + entry.size + 1, Len(body))

\* set_existing_raw_value: the file afterwards and the result
set_existing_raw_value(f, key, new_value) ==
    LET entry == raw_value_mut(f, key)
    IN  IF ~entry.ok THEN [file |-> f, result |-> entry]
        ELSE [file |-> [f EXCEPT ![entry.value.section].body = set(@, entry.value, new_value)],
              result |-> Ok(<< >>)]

\* for (i, event) in section.as_ref().iter().enumerate() { match event ... }
\* of raw_values_mut_filter_inner: the locals last_boundary, expect_value and
\* offset_list after the events from i on, and the offset_index of every
\* entry pushed; i counts from 0 in the source, offset_index is the length
\* of offset_list
RECURSIVE OffsetScan(_, _, _, _)
OffsetScan(body, key, i, st) ==
    IF i > Len(body) THEN st
    ELSE IF body[i] = SectionKey(key)
         THEN OffsetScan(body, key, i + 1,
                  [st EXCEPT !.expect_value = TRUE,
                             !.offset_list = Append(@, (i - 1) - st.last_boundary),
                             !.last_boundary = i - 1])
    ELSE IF body[i].event \in { "Value", "ValueDone" } /\ st.expect_value
         THEN OffsetScan(body, key, i + 1,
                  [st EXCEPT !.expect_value = FALSE,
                             !.pushed = Append(@, Len(st.offset_list)),
                             !.offset_list = Append(@, (i - 1) - st.last_boundary + 1),
                             !.last_boundary = i])
    ELSE OffsetScan(body, key, i + 1, st)

\* let mut last_boundary = 0; let mut expect_value = false; let mut
\* offset_list = Vec::new(); let mut offset_index = 0; for ...
Offsets(body, key) ==
    OffsetScan(body, key, 1,
               [last_boundary |-> 0, expect_value |-> FALSE, offset_list |-> << >>,
                pushed |-> << >>])

\* EntryData { section_id, offset_index }
EntryData(section_id, offset_index) ==
    [section_id |-> section_id, offset_index |-> offset_index]

\* for section_id in section_ids.rev() { ... }: the entries pushed, in the
\* order they are pushed in
RECURSIVE EntriesLoop(_, _, _, _)
EntriesLoop(f, section_ids, key, flt) ==
    IF section_ids = << >> THEN << >>
    ELSE LET section_id == Head(section_ids)
             section == f[section_id]
             pushed == Offsets(section.body, key.name).pushed
         IN  IF ~filter(flt, section.meta) THEN EntriesLoop(f, Tail(section_ids), key, flt)
             ELSE [n \in 1..Len(pushed) |-> EntryData(section_id, pushed[n])]
                      \o EntriesLoop(f, Tail(section_ids), key, flt)

\* the derived Ord of EntryData: by section_id, then by offset_index
EntryLessThan(a, b) ==
    \/ a.section_id < b.section_id
    \/ a.section_id = b.section_id /\ a.offset_index < b.offset_index

\* raw_values_mut_filter_inner: the MultiValueMut of all occurrences of the
\* key in the accepted sections, sorted; offsets has the offset_list of
\* every accepted section under the header
raw_values_mut_filter_inner(f, key, flt) ==
    LET section_ids == section_ids_by_name_and_subname(f, key.section_name, key.subsection_name)
        entries == EntriesLoop(f, Rev(section_ids.value), key, flt)
        accepted == { section_ids.value[n] : n \in { n \in 1..Len(section_ids.value) :
                          filter(flt, f[section_ids.value[n]].meta) } }
    IN  IF ~section_ids.ok THEN section_ids
        ELSE IF entries = << >> THEN KeyMissing
        ELSE Ok([key |-> key.name,
                 indices_and_sizes |-> SortSeq(entries, EntryLessThan),
                 offsets |-> [id \in accepted |-> Offsets(f[id].body, key.name).offset_list]])

\* raw_values_mut_filter
raw_values_mut_filter(f, key, flt) == raw_values_mut_filter_inner(f, key, flt)

\* raw_values_mut
raw_values_mut(f, key) == raw_values_mut_filter(f, key, AcceptAll)

\* raw_value_mut_filter
raw_value_mut_filter(f, key, flt) == raw_value_mut_filter_inner(f, key, flt)

\* the sum of the first n elements of a list
RECURSIVE SumFirst(_, _)
SumFirst(list, n) == IF n = 0 THEN 0 ELSE SumFirst(list, n - 1) + list[n]

\* MultiValueMut::index_and_size: where the events of the entry start in
\* the body, counted from 0, and how many they are
index_and_size(offsets, section_id, offset_index) ==
    [offset |-> SumFirst(offsets[section_id], offset_index),
     size |-> offsets[section_id][offset_index + 1]]

\* MultiValueMut::set_value_inner: the events of the entry go, key,
\* separator and the new value take their place
set_value_inner(body, key, at, new_value) ==
    SubSeq(body, 1, at.offset)
        \o << SectionKey(key), KeyValueSeparator, Value(new_value) >>
        \o SubSeq(body, at.offset + at.size + 1, Len(body))

\* MultiValueMut::set_values: for (entry, value) in
\* self.indices_and_sizes.iter().zip(values) { set_value_inner(..) }, with
\* the size of every entry set noted in offsets
RECURSIVE set_values(_, _, _, _, _)
set_values(f, key, entries, offsets, new_values) ==
    IF entries = << >> \/ new_values = << >> THEN f
    ELSE LET entry == Head(entries)
             at == index_and_size(offsets, entry.section_id, entry.offset_index)
         IN  set_values(
                 [f EXCEPT ![entry.section_id].body = set_value_inner(@, key, at, Head(new_values))],
                 key, Tail(entries),
                 [offsets EXCEPT ![entry.section_id][entry.offset_index + 1] = 3],
                 Tail(new_values))

\* set_existing_raw_multi_value: the file afterwards and the result
set_existing_raw_multi_value(f, key, new_values) ==
    LET v == raw_values_mut(f, key)
    IN  IF ~v.ok THEN [file |-> f, result |-> v]
        ELSE [file |-> set_values(f, v.value.key, v.value.indices_and_sizes,
                                  v.value.offsets, new_values),
              result |-> Ok(<< >>)]

\* the lists of values set_existing_raw_multi_value is called with
NewValueLists == { << "z" >>, << "z", "w", "z" >> }

\* the value set_existing_raw_value is called with
NewValues == { "z" }

\* no access to the file yet
NoAccess ==
    [op |-> "none", key |-> AsKey("", None, ""), filter |-> AcceptAll,
     new_value |-> "", result |-> Ok(<< >>)]

InitConfig ==
    /\ parsed \in Files
    /\ file = parsed
    /\ access = NoAccess
    /\ DiffIdle
    /\ PairIdle
    /\ ReaderIdle
    /\ KeyIdle
    /\ PathIdle
    /\ HttpIdle

\* a call of raw_value_filter(key, filter)
RawValueFilter(key, flt) ==
    /\ access' = [op |-> "raw_value_filter", key |-> key, filter |-> flt,
                  new_value |-> "", result |-> raw_value_filter(file, key, flt)]
    /\ UNCHANGED << parsed, file, outside_config >>

\* a call of raw_values_filter(key, filter)
RawValuesFilter(key, flt) ==
    /\ access' = [op |-> "raw_values_filter", key |-> key, filter |-> flt,
                  new_value |-> "", result |-> raw_values_filter(file, key, flt)]
    /\ UNCHANGED << parsed, file, outside_config >>

\* a call of set_existing_raw_value(key, new_value), on the file as parsed
SetExistingRawValue(key, new_value) ==
    /\ file = parsed
    /\ file' = set_existing_raw_value(file, key, new_value).file
    /\ access' = [op |-> "set_existing_raw_value", key |-> key, filter |-> AcceptAll,
                  new_value |-> new_value,
                  result |-> set_existing_raw_value(file, key, new_value).result]
    /\ UNCHANGED << parsed, outside_config >>

\* File::new_section: a section with the header and no line is added last;
\* it carries the metadata of the file
new_section(f, section_name, subsection_name) ==
    Append(f, [name |-> section_name, subsection_name |-> subsection_name,
               meta |-> "Full", body |-> << >>])

\* File::section_mut_or_create_new_filter: the file, with a new section if
\* no section under the header passes the filter, and the id of the last
\* section under the header that passes it
section_mut_or_create_new_filter(f, section_name, subsection_name, flt) ==
    LET section_ids == section_ids_by_name_and_subname(f, section_name, subsection_name)
        passing == IF section_ids.ok
                   THEN SelectSeq(section_ids.value, LAMBDA id : filter(flt, f[id].meta))
                   ELSE << >>
    IN  IF passing = << >>
        THEN [file |-> new_section(f, section_name, subsection_name), section |-> Len(f) + 1]
        ELSE [file |-> f, section |-> Last(passing)]

\* SectionMut::push(key, Some(value)): the line "key=value" is added last
push(body, key, new_value) == body \o Compact(key, new_value)

\* SectionMut::set: without the key the line is pushed and None returned;
\* with it the Value event of its last occurrence is exchanged for the new
\* value and the old one returned
SectionSet(body, key, new_value) ==
    LET key_start == LastKey(body, key)
        value_at == ValueOfKey(body, key_start)
    IN  IF key_start = 0
        THEN [body |-> push(body, key, new_value), previous |-> None]
        ELSE [body |-> [body EXCEPT ![value_at] = Value(new_value)],
              previous |-> Some(body[value_at].text)]

\* set_raw_value_filter: the file afterwards and the result
set_raw_value_filter(f, key, new_value, flt) ==
    LET got == section_mut_or_create_new_filter(f, key.section_name, key.subsection_name, flt)
        done == SectionSet(got.file[got.section].body, key.name, new_value)
    IN  [file |-> [got.file EXCEPT ![got.section].body = done.body],
         result |-> Ok(done.previous)]

\* set_raw_value
set_raw_value(f, key, new_value) == set_raw_value_filter(f, key, new_value, AcceptAll)

\* a call of set_raw_value(key, new_value), on the file as parsed
SetRawValue(key, new_value) ==
    /\ file = parsed
    /\ file' = set_raw_value(file, key, new_value).file
    /\ access' = [op |-> "set_raw_value", key |-> key, filter |-> AcceptAll,
                  new_value |-> new_value,
                  result |-> set_raw_value(file, key, new_value).result]
    /\ UNCHANGED << parsed, outside_config >>

\* a call of raw_value_mut_filter(key, filter): the handle it returns
RawValueMutFilter(key, flt) ==
    /\ access' = [op |-> "raw_value_mut_filter", key |-> key, filter |-> flt,
                  new_value |-> "", result |-> raw_value_mut_filter(file, key, flt)]
    /\ UNCHANGED << parsed, file, outside_config >>

\* a call of raw_values_mut_filter(key, filter): the handle it returns
RawValuesMutFilter(key, flt) ==
    /\ access' = [op |-> "raw_values_mut_filter", key |-> key, filter |-> flt,
                  new_value |-> "", result |-> raw_values_mut_filter(file, key, flt)]
    /\ UNCHANGED << parsed, file, outside_config >>

\* a call of set_existing_raw_multi_value(key, new_values), on the file as
\* parsed
SetExistingRawMultiValue(key, new_values) ==
    /\ file = parsed
    /\ file' = set_existing_raw_multi_value(file, key, new_values).file
    /\ access' = [op |-> "set_existing_raw_multi_value", key |-> key, filter |-> AcceptAll,
                  new_value |-> "", new_values |-> new_values,
                  result |-> set_existing_raw_multi_value(file, key, new_values).result]
    /\ UNCHANGED << parsed, outside_config >>

\* a call of set_raw_value_filter(key, new_value, filter), on the file as
\* parsed; with the filter |_| true it is the call of set_raw_value
SetRawValueFilter(key, new_value, flt) ==
    /\ file = parsed
    /\ file' = set_raw_value_filter(file, key, new_value, flt).file
    /\ access' = [op |-> "set_raw_value_filter", key |-> key, filter |-> flt,
                  new_value |-> new_value,
                  result |-> set_raw_value_filter(file, key, new_value, flt).result]
    /\ UNCHANGED << parsed, outside_config >>

NextConfig ==
    \/ \E key \in Keys, flt \in Filters : RawValueFilter(key, flt)
    \/ \E key \in Keys, flt \in Filters : RawValuesFilter(key, flt)
    \/ \E key \in Keys, new_value \in NewValues : SetExistingRawValue(key, new_value)
    \/ \E key \in Keys, new_value \in NewValues : SetRawValue(key, new_value)
    \/ \E key \in Keys, flt \in Filters : RawValueMutFilter(key, flt)
    \/ \E key \in Keys, flt \in Filters : RawValuesMutFilter(key, flt)
    \/ \E key \in Keys, new_values \in NewValueLists : SetExistingRawMultiValue(key, new_values)
    \/ \E key \in Keys, new_value \in NewValues, flt \in Filters \ { AcceptAll } :
         SetRawValueFilter(key, new_value, flt)

SpecConfig == InitConfig /\ [][NextConfig]_vars

\* ------------------------------------------------------------------------
\* gix-config: properties
\* ------------------------------------------------------------------------

\* the lookup ended with Err(KeyMissing)
IsKeyMissing(r) == ~r.ok /\ r.value = "KeyMissing"

\* C18: the single value is the last of the multi-value list: after a call
\* of raw_value_filter(key, filter), if raw_values_filter(key, filter) gives
\* a list then the call returned the last element of that list, and if it
\* gives KeyMissing then the call returned KeyMissing too
C18_SingleIsLastOfMulti ==
    access.op = "raw_value_filter" =>
        LET many == raw_values_filter(file, access.key, access.filter)
        IN  /\ many.ok => access.result = Ok(Last(many.value))
            /\ IsKeyMissing(many) => IsKeyMissing(access.result)

\* the sections of f under the header of the key
Under(f, key) ==
    { i \in 1..Len(f) : /\ f[i].name = key.section_name
                        /\ f[i].subsection_name = key.subsection_name }

\* where f holds a value of the key in a section the filter accepts: the
\* section and the Value event whose line starts with the key
Holds(f, key, flt) ==
    UNION { { << i, j >> : j \in { j \in 1..Len(f[i].body) :
                /\ f[i].body[j].event = "Value"
                /\ \E k \in 1..(j - 1) :
                     /\ f[i].body[k] = SectionKey(key.name)
                     /\ \A l \in (k + 1)..(j - 1) :
                          f[i].body[l].event \notin { "SectionKey", "Value" } } } :
            i \in { i \in Under(f, key) : f[i].meta \in flt } }

\* p is written before q in the file, or is q
Before(p, q) == p[1] < q[1] \/ (p[1] = q[1] /\ p[2] <= q[2])

\* how many of the places are written up to p
Rank(places, p) == Cardinality({ q \in places : Before(q, p) })

\* C19: after a call of raw_values_filter(key, filter) the result is the
\* list of all values of the key in the accepted sections under the key's
\* header, in the order they are written in the file; it is KeyMissing
\* exactly when sections under the header exist and no accepted one holds
\* a value of the key, and it is never an empty list
C19_AllValuesInOrder ==
    access.op = "raw_values_filter" =>
        LET places == Holds(file, access.key, access.filter)
            listed == access.result
        IN  /\ listed.ok =>
                /\ listed.value # << >>
                /\ Len(listed.value) = Cardinality(places)
                /\ \A p \in places :
                     listed.value[Rank(places, p)] = file[p[1]].body[p[2]].text
            /\ IsKeyMissing(listed) <=>
                    (Under(file, access.key) # { } /\ places = { })

\* a list of three or more values from two sections has been returned
C19_Witness ==
    /\ access.op = "raw_values_filter"
    /\ access.result.ok
    /\ Len(access.result.value) >= 3
    /\ access.result.value[1] # access.result.value[2]
    /\ Cardinality({ p[1] : p \in Holds(file, access.key, access.filter) }) = 2

\* the list with its last element replaced
ReplaceLast(s, v) == [s EXCEPT ![Len(s)] = v]

\* C20: after a call of set_existing_raw_value(key, new_value) on a file
\* that holds the key, the call returned Ok, raw_value(key) is the new
\* value, raw_values(key) is the old list with only its last element
\* replaced and raw_values of every other key is as before; on a file that
\* does not hold the key the call returned an error and the file is unchanged
C20_ReplacesLastValueOnly ==
    access.op = "set_existing_raw_value" =>
        LET old == raw_values(parsed, access.key)
        IN  IF old.ok
            THEN /\ access.result = Ok(<< >>)
                 /\ raw_value(file, access.key) = Ok(access.new_value)
                 /\ raw_values(file, access.key).ok
                 /\ raw_values(file, access.key).value = ReplaceLast(old.value, access.new_value)
                 /\ \A k \in Keys \ { access.key } :
                      raw_values(file, k) = raw_values(parsed, k)
            ELSE /\ ~access.result.ok
                 /\ file = parsed

\* the last of three or more values has been replaced in a file that also
\* holds another key
C20_Witness ==
    /\ access.op = "set_existing_raw_value"
    /\ access.result.ok
    /\ Len(raw_values(parsed, access.key).value) >= 3
    /\ \E k \in Keys \ { access.key } : raw_values(parsed, k).ok
    /\ file # parsed

\* C21: after a call of set_raw_value(key, new_value) the call returned the
\* value raw_value(key) had before if it had one and None otherwise, and
\* raw_value(key) is the new value
C21_SetThenGetRoundTrip ==
    access.op = "set_raw_value" =>
        LET before == raw_value(parsed, access.key)
        IN  /\ access.result.ok
            /\ access.result.value = (IF before.ok THEN Some(before.value) ELSE None)
            /\ raw_value(file, access.key) = Ok(access.new_value)

\* ------------------------------------------------------------------------
\* git-odb: loose::object::stream::Reader
\* ------------------------------------------------------------------------

\* the most bytes a decompressed stream has
MaxData == 3

\* the longest buffer a caller reads into
MaxBuf == 2

\* the byte values streams are made of
Bytes == { 104, 112 }

Streams == UNION { [1..n -> Bytes] : n \in 0..MaxData }

BufLens == 0..MaxBuf

\* &data[n..]
From(data, n) == SubSeq(data, n + 1, Len(data))

\* io::Result<usize> of a read into a buffer of len bytes
Read(n, len) == [ok |-> TRUE, n |-> n, len |-> len]

\* the io::Error of read_exact at the end of the stream
UnexpectedEof(len) == [ok |-> FALSE, n |-> 0, len |-> len]

\* Reader::from_read: the header still to skip, and an inflate reader at
\* the start of the stream
from_read(size, data) == [header_size_left |-> size, consumed |-> 0]

\* from_data that keeps the header in the slice
from_dataWithHeader(size, data) == IF size > Len(data) THEN None ELSE Some(data)

\* Reader::from_data: &data[header_size..], a panic if that is out of range
from_data(size, data) == IF size > Len(data) THEN None ELSE Some(From(data, size))

\* the bytes the inflate reader has not handed out yet
Unread == From(stream, file_reader.consumed)

\* how many bytes r.read(buf) may return: none at the end of the stream or
\* into an empty buffer, else at least one and at most what fits
MayRead(len) ==
    IF len = 0 \/ Unread = << >> THEN { 0 } ELSE 1..Min(len, Len(Unread))

\* the buffer with its first n bytes overwritten by the next unread ones
Filled(b, n) == SubSeq(Unread, 1, n) \o From(b, n)

InitReader ==
    /\ stream \in Streams
    /\ header_size \in 0..(Len(stream) + 1)
    /\ file_reader = from_read(header_size, stream)
    /\ buffer_reader = from_data(header_size, stream)
    /\ buf = << >>
    /\ pc = "ready"
    /\ returned = [file |-> Read(0, 0), data |-> Read(0, 0)]
    /\ payload = [file |-> << >>, data |-> << >>]
    /\ DiffIdle
    /\ PairIdle
    /\ ConfigIdle
    /\ KeyIdle
    /\ PathIdle
    /\ HttpIdle

\* Reader::Buffer(data) => data.read(buf), with a buffer of len bytes: as
\* many bytes as fit are copied from the front of the slice
ReadBuffer(len) ==
    /\ buffer_reader # None
    /\ LET data == buffer_reader[1]
           n == Min(len, Len(data))
       IN  /\ buffer_reader' = Some(From(data, n))
           /\ payload' = [payload EXCEPT !.data = @ \o SubSeq(data, 1, n)]
           /\ returned' = [returned EXCEPT !.data = Read(n, len)]
    /\ UNCHANGED << stream, header_size, file_reader, buf, pc, outside_reader >>

\* Reader::File with *header_size_left == 0 => r.read(buf)
ReadFileDirect(len) ==
    /\ pc = "ready"
    /\ file_reader.header_size_left = 0
    /\ \E n \in MayRead(len) :
         /\ file_reader' = [file_reader EXCEPT !.consumed = @ + n]
         /\ payload' = [payload EXCEPT !.file = @ \o SubSeq(Unread, 1, n)]
         /\ returned' = [returned EXCEPT !.file = Read(n, len)]
    /\ UNCHANGED << stream, header_size, buffer_reader, buf, pc, outside_reader >>

\* Reader::File with header bytes left: the call enters its while loop
ReadFileEnter(len) ==
    /\ pc = "ready"
    /\ file_reader.header_size_left # 0
    /\ buf' = [i \in 1..len |-> 0]
    /\ pc' = "loop"
    /\ UNCHANGED << stream, header_size, file_reader, buffer_reader, returned, payload,
                    outside_reader >>

\* one round of while *header_size_left != 0 { ... }: read_exact fills the
\* front of the buffer with header bytes, or fails at the end of the stream
\* and the call returns the error through the ?
LoopIteration ==
    /\ pc = "loop"
    /\ file_reader.header_size_left # 0
    /\ LET bytes_to_read == Min(Len(buf), file_reader.header_size_left)
       IN  IF bytes_to_read <= Len(Unread)
           THEN /\ buf' = Filled(buf, bytes_to_read)
                /\ file_reader' = [header_size_left |-> file_reader.header_size_left - bytes_to_read,
                                   consumed |-> file_reader.consumed + bytes_to_read]
                /\ UNCHANGED << pc, returned >>
           ELSE /\ buf' = << >>
                /\ file_reader' = [file_reader EXCEPT !.consumed = Len(stream)]
                /\ pc' = "ready"
                /\ returned' = [returned EXCEPT !.file = UnexpectedEof(Len(buf))]
    /\ UNCHANGED << stream, header_size, buffer_reader, payload, outside_reader >>

\* a loop exit that returns once the header is skipped, without the read
\* after the loop
LoopExitHeaderOnly ==
    /\ pc = "loop"
    /\ file_reader.header_size_left = 0
    /\ returned' = [returned EXCEPT !.file = Read(0, Len(buf))]
    /\ buf' = << >>
    /\ pc' = "ready"
    /\ UNCHANGED << stream, header_size, file_reader, buffer_reader, payload, outside_reader >>

\* the r.read(buf) after the loop: payload overwrites the buffer from its
\* front and the call returns how many bytes of it
LoopExit ==
    /\ pc = "loop"
    /\ file_reader.header_size_left = 0
    /\ \E n \in MayRead(Len(buf)) :
         /\ file_reader' = [file_reader EXCEPT !.consumed = @ + n]
         /\ payload' = [payload EXCEPT !.file = @ \o SubSeq(Filled(buf, n), 1, n)]
         /\ returned' = [returned EXCEPT !.file = Read(n, Len(buf))]
    /\ buf' = << >>
    /\ pc' = "ready"
    /\ UNCHANGED << stream, header_size, buffer_reader, outside_reader >>

NextReader ==
    \/ \E len \in BufLens : ReadBuffer(len)
    \/ \E len \in BufLens : ReadFileDirect(len)
    \/ \E len \in BufLens : ReadFileEnter(len)
    \/ LoopIteration
    \/ LoopExit

SpecReader == InitReader /\ [][NextReader]_vars

\* the read returned 0 bytes into a buffer that is not empty: end of file
AtEof(r) == r.ok /\ r.n = 0 /\ r.len > 0

\* C22: with header_size <= len(stream), what the reads of the File reader
\* and of the Buffer reader hand out is always the start of the stream
\* without its first header_size bytes, and all of it once the reader is at
\* the end, so both hand out the same bytes and never a header byte
C22_SameBytes ==
    header_size <= Len(stream) =>
        \A r \in { "file", "data" } :
            /\ Len(payload[r]) <= Len(From(stream, header_size))
            /\ payload[r] = SubSeq(From(stream, header_size), 1, Len(payload[r]))
            /\ AtEof(returned[r]) => payload[r] = From(stream, header_size)

\* both readers are at the end of a stream with a header and two or more
\* payload bytes that differ
C22_Witness ==
    /\ header_size >= 1
    /\ AtEof(returned.file) /\ AtEof(returned.data)
    /\ Len(payload.file) >= 2
    /\ payload.file[1] # payload.file[2]
    /\ payload.file = payload.data

\* ------------------------------------------------------------------------
\* gix-config: the Key implementations
\* ------------------------------------------------------------------------

\* the longest key
MaxKeyLen == 5

\* b'.'
Dot == 46

\* the bytes keys are made of: '.', 'a', 'b' and 0xff, which no UTF-8 text holds
KeyBytes == { Dot, 97, 98, 255 }

KeyInputs == UNION { [1..n -> KeyBytes] : n \in 0..MaxKeyLen }

\* std::str::from_utf8 on these bytes: ASCII is text as it is, 0xff is not
IsUtf8(s) == \A i \in 1..Len(s) : s[i] < 128

\* the places of the dots
Dots(s) == { i \in 1..Len(s) : s[i] = Dot }

FirstDot(s) == CHOOSE i \in Dots(s) : \A j \in Dots(s) : i <= j

LastDot(s) == CHOOSE i \in Dots(s) : \A j \in Dots(s) : j <= i

\* str::split_once('.'): the text before and after the first '.'
split_once(s) ==
    IF Dots(s) = { } THEN None
    ELSE Some(<< SubSeq(s, 1, FirstDot(s) - 1), From(s, FirstDot(s)) >>)

\* str::rsplit_once('.'): the text before and after the last '.'
rsplit_once(s) ==
    IF Dots(s) = { } THEN None
    ELSE Some(<< SubSeq(s, 1, LastDot(s) - 1), From(s, LastDot(s)) >>)

\* slice::split(|b| *b == b'.'): all the parts, front to back
RECURSIVE split(_)
split(s) ==
    IF Dots(s) = { } THEN << s >>
    ELSE << SubSeq(s, 1, FirstDot(s) - 1) >> \o split(From(s, FirstDot(s)))

\* slice::rsplit(|b| *b == b'.'): all the parts, back to front
rsplit(s) == Rev(split(s))

\* slice::splitn(2, |b| *b == b'.'): the part before the first '.', then the rest
splitn2(s) ==
    IF Dots(s) = { } THEN << s >>
    ELSE << SubSeq(s, 1, FirstDot(s) - 1), From(s, FirstDot(s)) >>

\* slice::rsplitn(2, |b| *b == b'.'): the part after the last '.', then the rest
rsplitn2(s) ==
    IF Dots(s) = { } THEN << s >>
    ELSE << From(s, LastDot(s)), SubSeq(s, 1, LastDot(s) - 1) >>

\* what a method returned, or that it panicked
Returned(v) == [panicked |-> FALSE, value |-> v]

Panicked == [panicked |-> TRUE, value |-> << >>]

\* to_str().unwrap()
to_str_unwrap(s) == IF IsUtf8(s) THEN Returned(s) ELSE Panicked

\* <&String as Key>::name
StringName(s) == IF rsplit_once(s) = None THEN Returned(s) ELSE Returned(rsplit_once(s)[1][2])

\* <&String as Key>::section_name
StringSectionName(s) == IF split_once(s) = None THEN Returned(<< >>) ELSE Returned(split_once(s)[1][1])

\* <&String as Key>::subsection_name
StringSubsectionName(s) ==
    IF rsplit_once(s) = None THEN Returned(None)
    ELSE LET section == rsplit_once(s)[1][1]
         IN  IF split_once(section) = None THEN Returned(None)
             ELSE Returned(Some(split_once(section)[1][2]))

\* <&str as Key>::name that takes the text after the first '.'
StrNameAfterFirstDot(s) == IF split_once(s) = None THEN Returned(s) ELSE Returned(split_once(s)[1][2])

\* <&str as Key>::name
StrName(s) == IF rsplit_once(s) = None THEN Returned(s) ELSE Returned(rsplit_once(s)[1][2])

\* <&str as Key>::section_name
StrSectionName(s) == IF split_once(s) = None THEN Returned(<< >>) ELSE Returned(split_once(s)[1][1])

\* <&str as Key>::subsection_name
StrSubsectionName(s) ==
    IF rsplit_once(s) = None THEN Returned(None)
    ELSE LET section == rsplit_once(s)[1][1]
         IN  IF split_once(section) = None THEN Returned(None)
             ELSE Returned(Some(split_once(section)[1][2]))

\* <&BString as Key>::name
BStringName(s) == to_str_unwrap(Head(rsplit(s)))

\* <&BString as Key>::section_name
BStringSectionName(s) ==
    LET parts == split(s)
    IN  IF Len(parts) >= 2 THEN to_str_unwrap(parts[1]) ELSE Returned(<< >>)

\* <&BString as Key>::subsection_name
BStringSubsectionName(s) ==
    IF Len(splitn2(s)) < 2 THEN Returned(None)
    ELSE LET subsection_or_key == splitn2(s)[2]
             parts == rsplitn2(subsection_or_key)
         IN  IF Len(parts) >= 2 THEN Returned(Some(parts[2])) ELSE Returned(None)

\* <&BStr as Key>::name
BStrName(s) == to_str_unwrap(Head(rsplit(s)))

\* <&BStr as Key>::section_name
BStrSectionName(s) ==
    LET parts == split(s)
    IN  IF Len(parts) >= 2 THEN to_str_unwrap(parts[1]) ELSE Returned(<< >>)

\* <&BStr as Key>::subsection_name
BStrSubsectionName(s) ==
    IF Len(splitn2(s)) < 2 THEN Returned(None)
    ELSE LET subsection_or_key == splitn2(s)[2]
             parts == rsplitn2(subsection_or_key)
         IN  IF Len(parts) >= 2 THEN Returned(Some(parts[2])) ELSE Returned(None)

\* the implementations of Key
Impls == { "String", "str", "BString", "BStr" }

\* the three parts of a key
Parts(name, section_name, subsection_name) ==
    [name |-> name, section_name |-> section_name, subsection_name |-> subsection_name]

InitKey ==
    /\ key_input \in KeyInputs
    /\ key_output = [i \in Impls |-> None]
    /\ DiffIdle
    /\ PairIdle
    /\ ConfigIdle
    /\ ReaderIdle
    /\ PathIdle
    /\ HttpIdle

\* the three methods called on the key as a &String, which holds text only
KeyOfString ==
    /\ IsUtf8(key_input)
    /\ key_output' = [key_output EXCEPT !["String"] =
            Some(Parts(StringName(key_input), StringSectionName(key_input),
                       StringSubsectionName(key_input)))]
    /\ UNCHANGED << key_input, outside_key >>

\* the three methods called on the key as a &str, which holds text only
KeyOfStr ==
    /\ IsUtf8(key_input)
    /\ key_output' = [key_output EXCEPT !["str"] =
            Some(Parts(StrName(key_input), StrSectionName(key_input),
                       StrSubsectionName(key_input)))]
    /\ UNCHANGED << key_input, outside_key >>

\* the three methods called on the key as a &BString
KeyOfBString ==
    /\ key_output' = [key_output EXCEPT !["BString"] =
            Some(Parts(BStringName(key_input), BStringSectionName(key_input),
                       BStringSubsectionName(key_input)))]
    /\ UNCHANGED << key_input, outside_key >>

\* the three methods called on the key as a &BStr
KeyOfBStr ==
    /\ key_output' = [key_output EXCEPT !["BStr"] =
            Some(Parts(BStrName(key_input), BStrSectionName(key_input),
                       BStrSubsectionName(key_input)))]
    /\ UNCHANGED << key_input, outside_key >>

NextKey == KeyOfString \/ KeyOfStr \/ KeyOfBString \/ KeyOfBStr

SpecKey == InitKey /\ [][NextKey]_vars

\* the parts the key text s has: the text after its last '.', the text
\* before its first '.', and the text between the two
PartsOf(s) ==
    Parts(Returned(IF Dots(s) = { } THEN s ELSE SubSeq(s, LastDot(s) + 1, Len(s))),
          Returned(IF Dots(s) = { } THEN << >> ELSE SubSeq(s, 1, FirstDot(s) - 1)),
          Returned(IF Cardinality(Dots(s)) < 2 THEN None
                   ELSE Some(SubSeq(s, FirstDot(s) + 1, LastDot(s) - 1))))

\* C23: for a key that is text, every Key implementation returns the same
\* three parts: name is the text after the last '.', section_name the text
\* before the first '.' (empty without a '.'), and subsection_name the text
\* between the first and the last '.' (None with fewer than two '.')
C23_KeyParsing ==
    IsUtf8(key_input) =>
        \A i \in Impls : key_output[i] # None => key_output[i][1] = PartsOf(key_input)

\* all four implementations have parsed a key like "a.b.a"
C23_Witness ==
    /\ IsUtf8(key_input)
    /\ \A i \in Impls : key_output[i] # None
    /\ Cardinality(Dots(key_input)) = 2
    /\ key_output["BStr"][1].name.value # << >>
    /\ key_output["BStr"][1].section_name.value # << >>
    /\ key_output["BStr"][1].subsection_name.value # Some(<< >>)
    /\ key_output["str"] = key_output["BStr"]

\* ------------------------------------------------------------------------
\* gix-validate: path::component
\* ------------------------------------------------------------------------

\* the longest run of free characters in a component
MaxComponentLen == 3

Slash == 47

Backslash == 92

Colon == 58

\* b".git"
DotGit == << 46, 103, 105, 116 >>

\* b"git~1"
Git8_3 == << 103, 105, 116, 126, 49 >>

\* "git"
GitName == << 103, 105, 116 >>

\* "gitmodules"
GitModulesName == << 103, 105, 116, 109, 111, 100, 117, 108, 101, 115 >>

\* "gi7eba", the prefix of the fall-back NTFS short names of .gitmodules
Gi7eba == << 103, 105, 55, 101, 98, 97 >>

\* the characters components are made of: '/', '\', ':', ' ' and 'a'
ComponentBytes == { Slash, Backslash, Colon, 32, 97 }

\* what the components begin with: nothing, ".git", ".g\u{200c}it", "git~1",
\* ".gItmodules", "gitmod~4", "gi7eba~1" and "~1000000", as in the tests
Prefixes ==
    { << >>,
      DotGit,
      << 46, 103, 8204, 105, 116 >>,
      Git8_3,
      << 46, 103, 73 >> \o SubSeq(GitModulesName, 3, 10),
      SubSeq(GitModulesName, 1, 6) \o << 126, 52 >>,
      Gi7eba \o << 126, 49 >>,
      << 126, 49, 48, 48, 48, 48, 48, 48 >> }

\* components: one of the prefixes and up to MaxComponentLen characters
Components ==
    LET tails == UNION { [1..n -> ComponentBytes] : n \in 0..MaxComponentLen }
    IN  { p \o t : p \in Prefixes, t \in tails }

\* Option<component::Mode>
ComponentModes == { None, Some("File"), Some("Symlink") }

\* component::Options
Options == [protect_windows : BOOLEAN, protect_hfs : BOOLEAN, protect_ntfs : BOOLEAN]

NO_OPTS == [protect_windows |-> FALSE, protect_hfs |-> FALSE, protect_ntfs |-> FALSE]

ALL_OPTS == [protect_windows |-> TRUE, protect_hfs |-> TRUE, protect_ntfs |-> TRUE]

UNIX_OPTS == [protect_windows |-> FALSE, protect_hfs |-> TRUE, protect_ntfs |-> TRUE]

\* the character is in the component
Contains(s, b) == \E i \in 1..Len(s) : s[i] = b

\* to_ascii_lowercase
Lower(b) == IF b >= 65 /\ b <= 90 THEN b + 32 ELSE b

\* eq_ignore_ascii_case
EqIgnoreCase(s, t) == Len(s) = Len(t) /\ \A i \in 1..Len(s) : Lower(s[i]) = Lower(t[i])

\* s begins with t, whatever the case
StartsWith(s, t) == Len(s) >= Len(t) /\ EqIgnoreCase(SubSeq(s, 1, Len(t)), t)

\* is_symlink(mode)
is_symlink(m) == m = Some("Symlink")

\* the code points HFS+ ignores in a name
HfsIgnored == (8204..8207) \cup (8234..8238) \cup (8298..8303) \cup { 65279 }

\* is_dot_hfs(input, search): '.' and search, whatever the case, once the
\* code points HFS+ ignores are left out
is_dot_hfs(s, search) ==
    LET kept == SelectSeq(s, LAMBDA c : c \notin HfsIgnored)
    IN  /\ kept # << >>
        /\ Head(kept) = Dot
        /\ EqIgnoreCase(Tail(kept), search)

\* is_done_ntfs: only spaces and dots follow, up to the end or a ':'
RECURSIVE is_done_ntfs(_)
is_done_ntfs(s) ==
    IF s = << >> THEN TRUE
    ELSE IF Head(s) = Colon THEN TRUE
    ELSE IF Head(s) # 32 /\ Head(s) # Dot THEN FALSE
    ELSE is_done_ntfs(Tail(s))

\* is_dot_git_ntfs: .git or git~1 and nothing NTFS keeps behind it
is_dot_git_ntfs(s) ==
    IF StartsWith(s, DotGit) THEN is_done_ntfs(From(s, 4))
    ELSE IF StartsWith(s, Git8_3) THEN is_done_ntfs(From(s, 5))
    ELSE FALSE

\* the loop of is_dot_ntfs over the first eight characters, for a fall-back
\* short name: up to six of the prefix, '~', a digit from 1 and digits
RECURSIVE ShortNameLoop(_, _, _, _)
ShortNameLoop(s, prefix, pos, saw_tilde) ==
    IF pos >= 8 THEN is_done_ntfs(From(s, pos))
    ELSE IF Len(s) <= pos THEN FALSE
    ELSE LET b == s[pos + 1]
         IN  IF saw_tilde
             THEN IF b >= 48 /\ b <= 57 THEN ShortNameLoop(s, prefix, pos + 1, TRUE)
                  ELSE FALSE
             ELSE IF b = 126
             THEN IF Len(s) <= pos + 1 THEN FALSE
                  ELSE IF s[pos + 2] < 49 \/ s[pos + 2] > 57 THEN FALSE
                  ELSE ShortNameLoop(s, prefix, pos + 2, TRUE)
             ELSE IF pos >= 6 \/ b >= 128 THEN FALSE
             ELSE IF pos >= Len(prefix) THEN FALSE
             ELSE IF Lower(b) # Lower(prefix[pos + 1]) THEN FALSE
             ELSE ShortNameLoop(s, prefix, pos + 1, FALSE)

\* is_dot_ntfs(input, search, ntfs_shortname_prefix): '.' and search, the
\* short name of its first six characters with ~1 to ~4, or a fall-back
\* short name, and nothing NTFS keeps behind it
is_dot_ntfs(s, search, ntfs_shortname_prefix) ==
    IF s # << >> /\ Head(s) = Dot
    THEN IF StartsWith(Tail(s), search) THEN is_done_ntfs(From(s, 1 + Len(search)))
         ELSE FALSE
    ELSE IF /\ Len(s) >= 8
            /\ EqIgnoreCase(SubSeq(s, 1, 6), SubSeq(search, 1, 6))
            /\ s[7] = 126
            /\ s[8] >= 49 /\ s[8] <= 52
         THEN is_done_ntfs(From(s, 8))
    ELSE ShortNameLoop(s, ntfs_shortname_prefix, 0, FALSE)

\* gix_validate::path::component(input, mode, options)
component(s, m, o) ==
    IF s = << >> THEN Err("Empty")
    ELSE IF o.protect_windows /\ (Contains(s, Slash) \/ Contains(s, Backslash))
         THEN Err("PathSeparator")
    ELSE IF o.protect_windows /\ Len(s) >= 2 /\ s[2] = Colon THEN Err("WindowsPathPrefix")
    ELSE IF ~o.protect_windows /\ Contains(s, Slash) THEN Err("PathSeparator")
    ELSE IF o.protect_hfs /\ is_dot_hfs(s, GitName) THEN Err("DotGitDir")
    ELSE IF o.protect_hfs /\ is_symlink(m) /\ is_dot_hfs(s, GitModulesName)
         THEN Err("SymlinkedGitModules")
    ELSE IF o.protect_ntfs /\ is_dot_git_ntfs(s) THEN Err("DotGitDir")
    ELSE IF o.protect_ntfs /\ is_symlink(m) /\ is_dot_ntfs(s, GitModulesName, Gi7eba)
         THEN Err("SymlinkedGitModules")
    ELSE IF ~(o.protect_hfs \/ o.protect_ntfs) /\ EqIgnoreCase(s, DotGit) THEN Err("DotGitDir")
    ELSE IF /\ ~(o.protect_hfs \/ o.protect_ntfs)
            /\ is_symlink(m)
            /\ EqIgnoreCase(s, << Dot >> \o GitModulesName)
         THEN Err("SymlinkedGitModules")
    ELSE Ok(s)

InitPath ==
    /\ input \in Components
    /\ component_mode \in ComponentModes
    /\ opts \in Options
    /\ validated = None
    /\ DiffIdle
    /\ PairIdle
    /\ ConfigIdle
    /\ ReaderIdle
    /\ KeyIdle
    /\ HttpIdle

\* the call of the tests that validates under ALL_OPTS whatever the options
ValidateUnderAllOpts ==
    /\ validated' = Some(component(input, component_mode, ALL_OPTS))
    /\ UNCHANGED << input, component_mode, opts, outside_path >>

\* the call of the tests: gix_validate::path::component(input, mode, opts)
Validate ==
    /\ validated' = Some(component(input, component_mode, opts))
    /\ UNCHANGED << input, component_mode, opts, outside_path >>

NextPath == Validate

SpecPath == InitPath /\ [][NextPath]_vars

\* C24 as stated: a validated component with a '/' was rejected with
\* PathSeparator; one with a backslash was rejected with PathSeparator
\* under protect_windows and accepted without it; the empty one was
\* rejected with Empty
C24_Separators ==
    validated # None =>
        /\ Contains(input, Slash) => validated[1] = Err("PathSeparator")
        /\ Contains(input, Backslash) =>
              IF opts.protect_windows THEN validated[1] = Err("PathSeparator")
              ELSE validated[1].ok
        /\ input = << >> => validated[1] = Err("Empty")

\* the component was rejected as a name of .git, or as one of .gitmodules
\* that a symlink has
RejectedAsGitName ==
    \/ validated[1] = Err("DotGitDir")
    \/ is_symlink(component_mode) /\ validated[1] = Err("SymlinkedGitModules")

\* C24, amended: a validated component with a '/' was rejected with
\* PathSeparator; one with a backslash was rejected with PathSeparator
\* under protect_windows; without protect_windows a backslash is a character
\* like any other: a component with a backslash and no '/' was accepted
\* unless it was rejected as a name of .git or, for a symlink, of
\* .gitmodules, and was not rejected with PathSeparator; the empty component
\* was rejected with Empty
C24_SeparatorsAmended ==
    validated # None =>
        /\ Contains(input, Slash) => validated[1] = Err("PathSeparator")
        /\ (Contains(input, Backslash) /\ opts.protect_windows) =>
              validated[1] = Err("PathSeparator")
        /\ (Contains(input, Backslash) /\ ~opts.protect_windows /\ ~Contains(input, Slash)) =>
              validated[1].ok \/ RejectedAsGitName
        /\ input = << >> => validated[1] = Err("Empty")

\* a component with a backslash and no '/' has been accepted under the
\* options of the test backslashes_on_unix
C24_Witness ==
    /\ validated # None
    /\ opts = UNIX_OPTS
    /\ Contains(input, Backslash)
    /\ validated[1].ok
    /\ validated[1].value = input

\* ------------------------------------------------------------------------
\* to_obtain_tree: the cases of the merge-join
\* ------------------------------------------------------------------------

\* the record calls about the name n
RecordsOf(n) == { c \in RecordIndices : NameOf(c) = n }

\* the entries at i and j are the pair the loop took last
TakenLast(i, j) == i = lhs_entries - 1 /\ j = rhs_entries - 1

\* C25: Kind-compatible change. For two entries of one name the loop has
\* taken, both non-trees and different in mode or hash, exactly one record
\* call is about the name, it is a Modification with the source entry's mode
\* and hash as previous and the target entry's as new values, and the call
\* did not go on to a recursion for the name.
C25_KindCompatibleChange ==
    \A i \in 1..(lhs_entries - 1) : \A j \in 1..(rhs_entries - 1) :
        ( /\ i <= Len(lhs) /\ j <= Len(rhs)
          /\ lhs[i].filename = rhs[j].filename
          /\ is_no_tree(lhs[i].mode) /\ is_no_tree(rhs[j].mode)
          /\ (lhs[i].oid # rhs[j].oid \/ lhs[i].mode # rhs[j].mode) ) =>
            /\ Cardinality(RecordsOf(lhs[i].filename)) = 1
            /\ \A c \in RecordsOf(lhs[i].filename) :
                  /\ calls[c].change.kind = "Modification"
                  /\ calls[c].change.previous_entry_mode = lhs[i].mode
                  /\ calls[c].change.previous_oid = lhs[i].oid
                  /\ calls[c].change.entry_mode = rhs[j].mode
                  /\ calls[c].change.oid = rhs[j].oid
            /\ (result.kind = "panic" => ~TakenLast(i, j))

\* C25, the case: a file changed both its mode and its hash and the call returned
C25_Witness ==
    /\ result = OkUnit
    /\ \E c \in RecordIndices :
          /\ calls[c].change.kind = "Modification"
          /\ is_no_tree(calls[c].change.previous_entry_mode)
          /\ is_no_tree(calls[c].change.entry_mode)
          /\ calls[c].change.previous_entry_mode # calls[c].change.entry_mode
          /\ calls[c].change.previous_oid # calls[c].change.oid

\* the delegate calls for one event: the component of the name, then the change
Event(name, change) ==
    { << UpdatePathComponent(PathComponentNew(name, path_id).component), Record(change, ret) >> :
        ret \in Action }

\* C26: Merge-join catch-up. When the heads of the two cursors differ in
\* name, the step advances only the cursor whose entry sorts earlier in the
\* canonical order and keeps the other, and records a Deletion for a source
\* entry and an Addition for a target entry.
C26_MergeJoinCatchUp ==
    [][ ( /\ result = Running
          /\ LhsNext # None /\ RhsNext # None
          /\ LhsNext[1].filename # RhsNext[1].filename ) =>
            IF EntryLess(LhsNext[1], RhsNext[1])
            THEN /\ lhs_entries' = lhs_entries + 1
                 /\ rhs_entries' = rhs_entries
                 /\ \E e \in Event(LhsNext[1].filename, Deletion(LhsNext[1], path_id + 1)) :
                       calls' = calls \o e
            ELSE /\ rhs_entries' = rhs_entries + 1
                 /\ lhs_entries' = lhs_entries
                 /\ \E e \in Event(RhsNext[1].filename, Addition(RhsNext[1], path_id + 1)) :
                       calls' = calls \o e ]_vars

\* C27: One cursor exhausted. With the source cursor exhausted a step takes
\* the next target entry and records its Addition, with the target cursor
\* exhausted it takes the next source entry and records its Deletion, each
\* after an update_path_component Replace call for the entry's name; and the
\* call returns Ok(()) only with both cursors exhausted, so every remaining
\* entry is recorded, in the order of the tree.
C27_OneCursorExhausted ==
    /\ [](result = OkUnit => (LhsNext = None /\ RhsNext = None))
    /\ [][ result = Running =>
             /\ (LhsNext = None /\ RhsNext # None) =>
                   /\ rhs_entries' = rhs_entries + 1
                   /\ \E e \in Event(RhsNext[1].filename, Addition(RhsNext[1], path_id + 1)) :
                         calls' = calls \o e
             /\ (LhsNext # None /\ RhsNext = None) =>
                   /\ lhs_entries' = lhs_entries + 1
                   /\ \E e \in Event(LhsNext[1].filename, Deletion(LhsNext[1], path_id + 1)) :
                         calls' = calls \o e ]_vars

\* C27, the case: the source had an entry more than the target and its
\* Deletion was recorded after the common entry was handled
C27_Witness ==
    /\ result = OkUnit
    /\ Len(lhs) = 2 /\ Len(rhs) = 1
    /\ Len(calls) >= 2
    /\ calls[Len(calls)].change.kind = "Deletion"
    /\ calls[Len(calls)].change.oid = lhs[2].oid
    /\ calls[Len(calls) - 1].component.name = lhs[2].filename

\* C28: Tree replaced by a non-tree. For a name the loop has taken that is
\* a tree in the source, held by the object database, and a non-tree in the
\* target, the call does not panic and every entry of the source sub-tree is
\* recorded as a Deletion.
C28_TreeToNonTree ==
    (Finished /\ NoCancel) =>
        \A i \in 1..(lhs_entries - 1) : \A j \in 1..(rhs_entries - 1) :
            ( /\ i <= Len(lhs) /\ j <= Len(rhs)
              /\ lhs[i].filename = rhs[j].filename
              /\ is_tree(lhs[i].mode) /\ is_no_tree(rhs[j].mode)
              /\ objects[lhs[i].oid] # None ) =>
                LET sub == objects[lhs[i].oid][1]
                IN  /\ result.kind # "panic"
                    /\ \A k \in 1..Len(sub) :
                          \E c \in RecordIndices :
                              /\ calls[c].change.kind = "Deletion"
                              /\ calls[c].change.entry_mode = sub[k].mode
                              /\ calls[c].change.oid = sub[k].oid
                              /\ NameOf(c) = sub[k].filename

\* the entries at i and j are one unchanged entry: one name, hash and mode
Unchanged(l, r) == l.filename = r.filename /\ l.oid = r.oid /\ l.mode = r.mode

\* C29: Unchanged entries are silent. A step on two entries of one name with
\* the same hash and the same mode makes no call on the delegate, leaves the
\* path identity counter as it is and moves both cursors to their next
\* entries.
C29_UnchangedEntriesSilent ==
    [][ ( /\ result = Running
          /\ LhsNext # None /\ RhsNext # None
          /\ Unchanged(LhsNext[1], RhsNext[1]) ) =>
            /\ calls' = calls
            /\ path_id' = path_id
            /\ lhs_entries' = lhs_entries + 1
            /\ rhs_entries' = rhs_entries + 1 ]_vars

\* C29, the case: the call went past an unchanged entry without a call on
\* the delegate and then recorded the change of the entry after it
C29_Witness ==
    /\ Len(lhs) = 2 /\ Len(rhs) = 2
    /\ Unchanged(lhs[1], rhs[1])
    /\ ~ Unchanged(lhs[2], rhs[2])
    /\ lhs_entries = 3 /\ rhs_entries = 3
    /\ Len(calls) = 2
    /\ calls[1].component.name = lhs[2].filename
    /\ path_id = 1

\* C30: Event payloads come from the right side. Every recorded Addition
\* carries the mode and hash of the target entry of its name, every Deletion
\* those of the source entry of its name, and every Modification those of
\* the source entry as previous and of the target entry of the same name as
\* new values.
C30_PayloadSides ==
    \A c \in RecordIndices :
        LET change == calls[c].change
        IN  /\ change.kind = "Addition" =>
                 \E r \in Named(rhs, NameOf(c)) :
                     change.entry_mode = r.mode /\ change.oid = r.oid
            /\ change.kind = "Deletion" =>
                 \E l \in Named(lhs, NameOf(c)) :
                     change.entry_mode = l.mode /\ change.oid = l.oid
            /\ change.kind = "Modification" =>
                 \E l \in Named(lhs, NameOf(c)) : \E r \in Named(rhs, NameOf(c)) :
                     /\ change.previous_entry_mode = l.mode /\ change.previous_oid = l.oid
                     /\ change.entry_mode = r.mode /\ change.oid = r.oid

\* C30, the case: a Modification and an Addition were recorded in one call
\* whose trees share no entry
C30_Witness ==
    /\ result = OkUnit
    /\ \E c \in RecordIndices : calls[c].change.kind = "Modification"
    /\ \E c \in RecordIndices : calls[c].change.kind = "Addition"
    /\ \A i \in 1..Len(lhs) : \A j \in 1..Len(rhs) : lhs[i] # rhs[j]

\* C31: Change and path component agree on identity. The path_id carried by
\* every recorded Change equals the identity of the path component passed to
\* the update_path_component call issued immediately before it.
C31_ChangeAndComponentAgree ==
    \A c \in RecordIndices :
        /\ IsUpdate(calls[c - 1])
        /\ calls[c].change.path_id = calls[c - 1].component.id

\* a read call that has entered its loop keeps executing: the thread that
\* called read runs the loop body and the read after it
SpecReaderFair ==
    /\ SpecReader
    /\ WF_vars(LoopIteration)
    /\ WF_vars(LoopExit)

\* C32: Reader::read terminates. Every read call on a file-based Reader that
\* entered its header loop returns, whatever the buffer length (zero
\* included) and the header size left, and when it returns successfully the
\* header size left is 0.
C32_ReadTerminates ==
    /\ (pc = "loop") ~> (pc = "ready")
    /\ [][(pc = "loop" /\ pc' = "ready" /\ returned'.file.ok)
            => file_reader'.header_size_left = 0]_vars

\* C33: Header skipping never looks like end of file. When a read of the
\* file-based Reader into a non-empty buffer returned 0 bytes, no header
\* byte is left to skip and the stream behind the header is exhausted, so
\* that all of the payload was handed out; and the header size left never
\* increases.
C33_HeaderSkipIsNotEof ==
    /\ [](AtEof(returned.file) =>
            /\ file_reader.header_size_left = 0
            /\ Unread = << >>
            /\ header_size <= Len(stream)
            /\ payload.file = From(stream, header_size))
    /\ [][file_reader'.header_size_left <= file_reader.header_size_left]_vars

\* C33, the case: a read that skipped a header returned payload, and a later
\* read into a non-empty buffer returned 0
C33_Witness ==
    /\ header_size > 0
    /\ payload.file # << >>
    /\ AtEof(returned.file)
    /\ pc = "ready"

\* ------------------------------------------------------------------------
\* git-transport: the http Transport. Strings are sequences of pieces, so
\* that format! is concatenation and two strings are equal when their
\* pieces are.
\* ------------------------------------------------------------------------

\* how many POSTs a Transport is followed through
MaxPosts == 2

Services == { "UploadPack", "ReceivePack" }

Protocols == { "V1", "V2" }

\* Service::as_str
as_str(s) == IF s = "UploadPack" THEN << "git-upload-pack" >> ELSE << "git-receive-pack" >>

\* self.version as usize
as_usize(v) == IF v = "V1" THEN << "1" >> ELSE << "2" >>

\* the urls a Transport is created with: without and with a trailing slash
Urls == { << "http://host" >>, << "http://host", "/" >> }

\* concat!("User-Agent: git/oxide-", env!("CARGO_PKG_VERSION"))
user_agent_header == << "User-Agent: git/oxide-", "CARGO_PKG_VERSION" >>

append_url(base, suffix) ==
    IF base # << >> /\ base[Len(base)] = "/"
    THEN base \o suffix
    ELSE base \o << "/" >> \o suffix

\* format!("Content-Type: application/x-{}-advertisement", service.as_str())
wanted_content_type(s) ==
    << "Content-Type: application/x-" >> \o as_str(s) \o << "-advertisement" >>

\* format!("# service={}", service.as_str())
expected_service_announcement(s) == << "# service=" >> \o as_str(s)

WhiteSpaceChars == { " ", "\n" }

\* str::trim: without the white space at either end
RECURSIVE trim_start(_)
trim_start(s) ==
    IF s # << >> /\ s[1] \in WhiteSpaceChars THEN trim_start(Tail(s)) ELSE s

RECURSIVE trim_end(_)
trim_end(s) ==
    IF s # << >> /\ s[Len(s)] \in WhiteSpaceChars
    THEN trim_end(SubSeq(s, 1, Len(s) - 1))
    ELSE s

trim(s) == trim_end(trim_start(s))

\* char::escape_debug of the pieces: a line feed and a double quote are
\* written with a backslash
EscapeDebug(s) ==
    [i \in 1..Len(s) |-> IF s[i] = "\n" THEN "\\n"
                         ELSE IF s[i] = "\"" THEN "\\\""
                         ELSE s[i]]

\* {:?} of a string: escaped and in double quotes
Debug(s) == << "\"" >> \o EscapeDebug(s) \o << "\"" >>

\* an io::Result<String>: a line of the headers or the text read from the body
Text(t) == [ok |-> TRUE, text |-> t]

IoError == [ok |-> FALSE, text |-> << >>]

\* the header blocks of the responses: the wanted line alone, after another
\* line, for the other service, in lower case, missing, unreadable, and
\* unreadable after the wanted line
HeaderBlocks ==
    { << Text(wanted_content_type("UploadPack")) >>,
      << Text(<< "Server: host" >>), Text(wanted_content_type("UploadPack")) >>,
      << Text(wanted_content_type("ReceivePack")) >>,
      << Text(<< "content-type: application/x-" >> \o as_str("UploadPack")
                \o << "-advertisement" >>) >>,
      << >>,
      << IoError >>,
      << Text(wanted_content_type("UploadPack")), IoError >> }

\* what read_to_string gets from the packet lines up to the first flush
Announcements ==
    { Text(expected_service_announcement("UploadPack") \o << "\n" >>),
      Text(<< " " >> \o expected_service_announcement("UploadPack")),
      Text(expected_service_announcement("ReceivePack") \o << "\n" >>),
      Text(<< >>),
      IoError }

\* a response body: its service announcement and whether capabilities and
\* refs can be parsed from what follows
ResponseBodies == [announced : Announcements, rest : { "ok", "err" }]

\* the pipe a new Transport's line reader is attached to
dummy == [announced |-> Text(<< >>), rest |-> "dummy"]

\* the answers of the Http implementation to get: a failure, or headers and
\* a body
GetFailed == [ok |-> FALSE, headers |-> << >>, body |-> dummy]

GetResponse(h, b) == [ok |-> TRUE, headers |-> h, body |-> b]

\* a body that announces upload-pack and parses
UploadPackBody ==
    [announced |-> Text(expected_service_announcement("UploadPack") \o << "\n" >>),
     rest |-> "ok"]

\* the header blocks that consist of the wanted line of a service
WantedAlone == { << Text(wanted_content_type(s)) >> : s \in Services }

\* the answers tried: a failure, every header block with a body that
\* announces upload-pack, and every body behind the wanted line of either
\* service
Gets ==
    { GetFailed }
        \cup { GetResponse(h, UploadPackBody) : h \in HeaderBlocks }
        \cup { GetResponse(h, b) : h \in WantedAlone, b \in ResponseBodies }

\* Result<_, client::Error>
HttpOk(kind) == [ok |-> TRUE, kind |-> kind, detail |-> << >>]

HttpErr(kind, detail) == [ok |-> FALSE, kind |-> kind, detail |-> detail]

\* client::Error::Http(Error::Detail(message))
Detail(message) == HttpErr("Http::Detail", message)

\* a panic of the call, with its message
HttpPanic(message) == [ok |-> FALSE, kind |-> "panic", detail |-> message]

\* Transport::new(url, version)
TransportNew(u, v) ==
    [url |-> u, version |-> v, service |-> None,
     line_reader |-> [inner |-> dummy, read |-> "nothing"],
     line_writer |-> [inner |-> "dummy"]]

\* the GET request of a handshake
GetRequest(self, svc) ==
    [url |-> append_url(self.url, << "info/refs?service=" >> \o as_str(svc)),
     headers |-> << user_agent_header >> \o
                 (IF self.version # "V1"
                  THEN << << "Git-Protocol: version=" >> \o as_usize(self.version) >>
                  ELSE << >>)]

\* a handshake that sets the service before it looks at the response
handshakeServiceFirst(self, svc, get) ==
    [self |-> [self EXCEPT !.service = Some(svc)],
     body_read |-> "nothing",
     result |-> IF get.ok THEN HttpOk("SetServiceResponse") ELSE HttpErr("Http", << >>)]

\* Transport::handshake with the answer of http.get: the Transport after the
\* call, how far the response body was read, and the result
handshake(self, svc, get) ==
    LET wanted == wanted_content_type(svc)
        expected == expected_service_announcement(svc)
        replaced == [self EXCEPT !.line_reader = [inner |-> get.body, read |-> "nothing"]]
        announced == get.body.announced
        after_announcement == [replaced EXCEPT !.line_reader.read = "announcement"]
        after_capabilities == [replaced EXCEPT !.line_reader.read = "capabilities"]
    IN  IF ~get.ok
        THEN [self |-> self, body_read |-> "nothing", result |-> HttpErr("Http", << >>)]
        ELSE IF \E i \in 1..Len(get.headers) : ~get.headers[i].ok
        THEN [self |-> self, body_read |-> "nothing", result |-> HttpErr("Io", << >>)]
        ELSE IF ~\E i \in 1..Len(get.headers) : get.headers[i].text = wanted
        THEN [self |-> self, body_read |-> "nothing",
              result |-> Detail(<< "Didn't find '" >> \o wanted \o
                  << "' header to indicate 'smart' protocol, and 'dumb' protocol is not supported." >>)]
        ELSE IF ~announced.ok
        THEN [self |-> after_announcement, body_read |-> "announcement",
              result |-> HttpErr("Io", << >>)]
        ELSE IF trim(announced.text) # expected
        THEN [self |-> after_announcement, body_read |-> "announcement",
              result |-> Detail(<< "Expected to see " >> \o Debug(expected)
                                  \o << ", but got " >> \o Debug(trim(announced.text)))]
        ELSE IF get.body.rest # "ok"
        THEN [self |-> after_capabilities, body_read |-> "capabilities",
              result |-> HttpErr("Capabilities", << >>)]
        ELSE [self |-> [after_capabilities EXCEPT !.service = Some(svc)],
              body_read |-> "capabilities",
              result |-> HttpOk("SetServiceResponse")]

\* the POST request of a request
PostRequest(self) ==
    [url |-> append_url(self.url, as_str(self.service[1])),
     headers |-> << << "Content-Type: application/x-git-" >> \o as_str(self.service[1])
                       \o << "-request" >> >>]

\* Transport::request with the answer of http.post, should it be asked: the
\* Transport after the call, the POSTs issued, and the result
request(self, post_ok) ==
    IF self.service = None
    THEN [self |-> self, posted |-> << >>,
          result |-> HttpPanic(<< "handshake() must have been called first" >>)]
    ELSE IF ~post_ok
    THEN [self |-> self, posted |-> << PostRequest(self) >>, result |-> HttpErr("Http", << >>)]
    ELSE [self |-> [self EXCEPT !.line_writer.inner = "post_body"],
          posted |-> << PostRequest(self) >>,
          result |-> HttpPanic(<< "not implemented: http line writer: POST" >>)]

\* the Transport as one value
Transport ==
    [url |-> url, version |-> version, service |-> service, line_reader |-> line_reader,
     line_writer |-> line_writer]

\* the fields of the Transport become those of t
Becomes(t) ==
    /\ url' = t.url
    /\ version' = t.version
    /\ service' = t.service
    /\ line_reader' = t.line_reader
    /\ line_writer' = t.line_writer

\* connect(url, version)
InitHttp ==
    /\ \E u \in Urls, v \in Protocols :
         LET t == TransportNew(u, v)
         IN  /\ url = t.url
             /\ version = t.version
             /\ service = t.service
             /\ line_reader = t.line_reader
             /\ line_writer = t.line_writer
    /\ posts = << >>
    /\ last_get = None
    /\ call = None
    /\ response = None
    /\ DiffIdle
    /\ PairIdle
    /\ ConfigIdle
    /\ ReaderIdle
    /\ KeyIdle
    /\ PathIdle

\* the last call unwound with a panic
HttpPanicked == response # None /\ response[1].kind = "panic"

\* a handshake that attaches the line reader to the body before it looks
\* at the headers
HandshakeReplacingFirst(svc, get) ==
    /\ ~HttpPanicked
    /\ LET r == handshake(Transport, svc, get)
           t == IF get.ok /\ r.body_read = "nothing"
                THEN [r.self EXCEPT !.line_reader = [inner |-> get.body, read |-> "nothing"]]
                ELSE r.self
       IN  /\ Becomes(t)
           /\ last_get' = Some([request |-> GetRequest(Transport, svc),
                                body_read |-> r.body_read])
           /\ call' = Some([op |-> "handshake", service |-> svc, get |-> get])
           /\ response' = Some(r.result)
    /\ UNCHANGED << posts, outside_http >>

Handshake(svc, get) ==
    /\ ~HttpPanicked
    /\ LET r == handshake(Transport, svc, get)
       IN  /\ Becomes(r.self)
           /\ last_get' = Some([request |-> GetRequest(Transport, svc),
                                body_read |-> r.body_read])
           /\ call' = Some([op |-> "handshake", service |-> svc, get |-> get])
           /\ response' = Some(r.result)
    /\ UNCHANGED << posts, outside_http >>

Request(post_ok) ==
    /\ ~HttpPanicked
    /\ Len(posts) < MaxPosts
    /\ LET r == request(Transport, post_ok)
       IN  /\ Becomes(r.self)
           /\ posts' = posts \o r.posted
           /\ call' = Some([op |-> "request", service |-> "", get |-> GetFailed])
           /\ response' = Some(r.result)
    /\ UNCHANGED << last_get, outside_http >>

NextHttp ==
    \/ \E svc \in Services, get \in Gets : Handshake(svc, get)
    \/ \E post_ok \in BOOLEAN : Request(post_ok)

SpecHttp == InitHttp /\ [][NextHttp]_vars

\* the step is a call of op
Called(op) == call' # None /\ call'[1].op = op /\ response' # None

\* C34: Handshake before request. The service of a Transport is unset until
\* a call was made on it, changes only in a handshake(s) that returns Ok and
\* then to s, stays as it is in every handshake that returns an error, and
\* a request on a Transport whose service is unset panics without a POST.
C34_HandshakeBeforeRequest ==
    /\ [](call = None => service = None)
    /\ [][service' # service =>
            /\ Called("handshake")
            /\ response'[1].ok
            /\ service' = Some(call'[1].service)]_vars
    /\ [][(Called("handshake") /\ ~response'[1].ok) => service' = service]_vars
    /\ [][(Called("request") /\ service = None) =>
            /\ response'[1].kind = "panic"
            /\ posts' = posts]_vars

\* C34, the case: a handshake for receive-pack succeeded, and a request was
\* then made that issued a POST
C34_Witness ==
    /\ service = Some("ReceivePack")
    /\ Len(posts) = 1
    /\ posts[1].url = append_url(url, as_str("ReceivePack"))
    /\ last_get # None
    /\ last_get[1].body_read = "capabilities"
    /\ call # None /\ call[1].op = "request"

\* some header line that could be read is the wanted one of the service
HasWanted(get, svc) ==
    \E i \in 1..Len(get.headers) :
        get.headers[i].ok /\ get.headers[i].text = wanted_content_type(svc)

\* every header line could be read
Readable(get) == \A i \in 1..Len(get.headers) : get.headers[i].ok

\* the call returned the Http Detail error, did not read the body, and left
\* the line reader and the service as they were
RefusedUnread ==
    /\ ~response'[1].ok
    /\ response'[1].kind = "Http::Detail"
    /\ last_get'[1].body_read = "nothing"
    /\ line_reader' = line_reader
    /\ service' = service

\* the announced text as a line: without the line feed at its end
AsLine(t) == IF t # << >> /\ t[Len(t)] = "\n" THEN SubSeq(t, 1, Len(t) - 1) ELSE t

\* the announced text without the white space around it
Stripped(t) ==
    LET inside == { i \in 1..Len(t) : t[i] \notin WhiteSpaceChars }
    IN  IF inside = { } THEN << >>
        ELSE SubSeq(t, CHOOSE i \in inside : \A j \in inside : i <= j,
                       CHOOSE i \in inside : \A j \in inside : j <= i)

\* C35 as stated: Smart-protocol check. A handshake whose response has no
\* header line equal to the wanted content type returns the Http Detail
\* error without reading the body or touching line reader and service, and
\* a handshake returns an error when the announced service line differs
\* from "# service=<service>".
C35_SmartProtocolCheck ==
    /\ [][(Called("handshake") /\ call'[1].get.ok
             /\ ~HasWanted(call'[1].get, call'[1].service)) => RefusedUnread]_vars
    /\ [][(Called("handshake") /\ call'[1].get.ok
             /\ HasWanted(call'[1].get, call'[1].service)
             /\ Readable(call'[1].get)
             /\ call'[1].get.body.announced.ok
             /\ AsLine(call'[1].get.body.announced.text)
                  # expected_service_announcement(call'[1].service))
            => ~response'[1].ok]_vars

\* C35, amended: the Http Detail error is returned, with the body unread
\* and line reader and service untouched, when every header line could be
\* read and none is the wanted one; and an Http Detail error is returned
\* when the announced text without the white space around it differs from
\* "# service=<service>".
C35_SmartProtocolCheckAmended ==
    /\ [][(Called("handshake") /\ call'[1].get.ok
             /\ Readable(call'[1].get)
             /\ ~HasWanted(call'[1].get, call'[1].service)) => RefusedUnread]_vars
    /\ [][(Called("handshake") /\ call'[1].get.ok
             /\ HasWanted(call'[1].get, call'[1].service)
             /\ Readable(call'[1].get)
             /\ call'[1].get.body.announced.ok
             /\ Stripped(call'[1].get.body.announced.text)
                  # expected_service_announcement(call'[1].service))
            => /\ ~response'[1].ok
               /\ response'[1].kind = "Http::Detail"]_vars

\* C35, the case: on a Transport that had completed a handshake, a
\* handshake for the other service got the content type of the first and
\* was refused, and the line reader and service of the first are in place
C35_Witness ==
    /\ call # None /\ call[1].op = "handshake" /\ call[1].service = "ReceivePack"
    /\ call[1].get.ok /\ Readable(call[1].get)
    /\ HasWanted(call[1].get, "UploadPack")
    /\ response[1].kind = "Http::Detail"
    /\ service = Some("UploadPack")
    /\ line_reader.read = "capabilities"
    /\ last_get[1].body_read = "nothing"

\* ------------------------------------------------------------------------
\* gix-config: the comfort accessors string_filter, path_filter,
\* boolean_filter and integer_filter
\* ------------------------------------------------------------------------

\* the texts that i64::from_str reads, with the number they stand for
Decimals == [t \in { "0", "1" } |-> IF t = "0" THEN 0 ELSE 1]

\* value::Error::new(message, input)
ValueError(message, v) == Err([message |-> message, input |-> v])

\* Boolean::try_from(v).map(Into::into): yes, on, true are true; no, off,
\* false and the empty text are false; a number is true unless it is 0
BooleanTryFrom(v) ==
    IF v \in { "yes", "on", "true" } THEN Ok(TRUE)
    ELSE IF v \in { "no", "off", "false", "" } THEN Ok(FALSE)
    ELSE IF v \in DOMAIN Decimals THEN Ok(Decimals[v] # 0)
    ELSE ValueError("Booleans need to be 'no', 'off', 'false', '' or 'yes', 'on', 'true' or any number", v)

\* Integer::try_from(v).and_then(|b| b.to_decimal().ok_or_else(...)), for
\* texts without a suffix
IntegerTryFrom(v) ==
    IF v \in DOMAIN Decimals THEN Ok(Decimals[v])
    ELSE ValueError("Integers needs to be positive or negative numbers which may have a suffix like 1k, 1m or 1g", v)

\* Result::ok
ok(r) == IF r.ok THEN Some(r.value) ELSE None

\* crate::Path::from
PathFrom(v) == [value |-> v]

\* string_filter
string_filter(f, key, flt) == ok(raw_value_filter(f, key, flt))

\* path_filter
path_filter(f, key, flt) ==
    LET found == ok(raw_value_filter(f, key, flt))
    IN  IF found = None THEN None ELSE Some(PathFrom(found[1]))

\* for section_id in section_ids.rev() { ... } None, of boolean_filter, that
\* takes a key without a value for a key that is not there
RECURSIVE BooleanLoopExplicitOnly(_, _, _, _)
BooleanLoopExplicitOnly(f, section_ids, key, flt) ==
    IF section_ids = << >> THEN None
    ELSE LET section == f[Head(section_ids)]
             found == value(section.body, key.name)
         IN  IF ~filter(flt, section.meta)
             THEN BooleanLoopExplicitOnly(f, Tail(section_ids), key, flt)
             ELSE IF found = None
             THEN BooleanLoopExplicitOnly(f, Tail(section_ids), key, flt)
             ELSE Some(BooleanTryFrom(found[1]))

\* for section_id in section_ids.rev() { ... } None, of boolean_filter
RECURSIVE BooleanLoop(_, _, _, _)
BooleanLoop(f, section_ids, key, flt) ==
    IF section_ids = << >> THEN None
    ELSE LET section == f[Head(section_ids)]
             found == value_implicit(section.body, key.name)
         IN  IF ~filter(flt, section.meta) THEN BooleanLoop(f, Tail(section_ids), key, flt)
             ELSE IF found = None THEN BooleanLoop(f, Tail(section_ids), key, flt)
             ELSE IF found[1] = None THEN Some(Ok(TRUE))
             ELSE Some(BooleanTryFrom(found[1][1]))

\* boolean_filter
boolean_filter(f, key, flt) ==
    LET section_ids == section_ids_by_name_and_subname(f, key.section_name, key.subsection_name)
    IN  IF ~section_ids.ok THEN None
        ELSE BooleanLoop(f, Rev(section_ids.value), key, flt)

\* integer_filter
integer_filter(f, key, flt) ==
    LET int == ok(raw_value_filter(f, key, flt))
    IN  IF int = None THEN None ELSE Some(IntegerTryFrom(int[1]))

\* the section bodies the comfort accessors are tried on: a key without a
\* value, with a true, a false and an unreadable one, another key only, and
\* a key with a value first and without one last
ComfortBodies ==
    { Implicit("a"),
      Compact("a", "yes"),
      Compact("a", "0"),
      Spaced("a", "x"),
      Compact("b", "yes"),
      Compact("a", "0") \o Implicit("a") }

\* these bodies under [core] with either trust, and one section [core "s"]
ComfortSections ==
    { [name |-> "core", subsection_name |-> None, meta |-> t, body |-> b] :
        t \in Trusts, b \in ComfortBodies }
        \cup { [name |-> "core", subsection_name |-> Some("s"), meta |-> "Full",
                body |-> Compact("a", "yes")] }

ComfortFiles == UNION { [1..n -> ComfortSections] : n \in 0..MaxSections }

InitComfort ==
    /\ parsed \in ComfortFiles
    /\ file = parsed
    /\ access = NoAccess
    /\ DiffIdle
    /\ PairIdle
    /\ ReaderIdle
    /\ KeyIdle
    /\ PathIdle
    /\ HttpIdle

\* a call of string_filter(key, filter)
StringFilter(key, flt) ==
    /\ access' = [op |-> "string_filter", key |-> key, filter |-> flt,
                  new_value |-> "", result |-> string_filter(file, key, flt)]
    /\ UNCHANGED << parsed, file, outside_config >>

\* a call of path_filter(key, filter)
PathFilter(key, flt) ==
    /\ access' = [op |-> "path_filter", key |-> key, filter |-> flt,
                  new_value |-> "", result |-> path_filter(file, key, flt)]
    /\ UNCHANGED << parsed, file, outside_config >>

\* a call of boolean_filter(key, filter)
BooleanFilter(key, flt) ==
    /\ access' = [op |-> "boolean_filter", key |-> key, filter |-> flt,
                  new_value |-> "", result |-> boolean_filter(file, key, flt)]
    /\ UNCHANGED << parsed, file, outside_config >>

\* a call of integer_filter(key, filter)
IntegerFilter(key, flt) ==
    /\ access' = [op |-> "integer_filter", key |-> key, filter |-> flt,
                  new_value |-> "", result |-> integer_filter(file, key, flt)]
    /\ UNCHANGED << parsed, file, outside_config >>

NextComfort ==
    \/ \E key \in Keys, flt \in Filters : RawValueFilter(key, flt)
    \/ \E key \in Keys, flt \in Filters : RawValuesFilter(key, flt)
    \/ \E key \in Keys, flt \in Filters : StringFilter(key, flt)
    \/ \E key \in Keys, flt \in Filters : PathFilter(key, flt)
    \/ \E key \in Keys, flt \in Filters : BooleanFilter(key, flt)
    \/ \E key \in Keys, flt \in Filters : IntegerFilter(key, flt)

SpecComfort == InitComfort /\ [][NextComfort]_vars

\* where the body has its last line that starts with the key, 0 without one
LastLine(body, name) ==
    LET at == { k \in 1..Len(body) : body[k] = SectionKey(name) }
    IN  IF at = { } THEN 0 ELSE CHOOSE k \in at : \A l \in at : l <= k

\* the events of the line that starts at k: up to the next key or the end
LineAt(body, k) ==
    LET next == { l \in (k + 1)..Len(body) : body[l].event = "SectionKey" }
        end == IF next = { } THEN Len(body)
               ELSE (CHOOSE l \in next : \A m \in next : l <= m) - 1
    IN  SubSeq(body, k, end)

\* the line has a separator and with it a value
HasValue(line) == \E j \in 1..Len(line) : line[j] = KeyValueSeparator

\* the text of the Value event of the line
ValueOfLine(line) ==
    line[CHOOSE j \in 1..Len(line) : line[j].event = "Value"].text

\* the sections a lookup of the key may answer from: under the header of
\* the key, accepted by the filter, with a line of the key
Answering(f, key, flt) ==
    { i \in Under(f, key) : f[i].meta \in flt /\ LastLine(f[i].body, key.name) # 0 }

\* C36: Boolean lookup. After a call of boolean_filter(key, filter) the
\* result is None when no accepted section under the header has the key;
\* otherwise it is that of the last such section in the file, by the last
\* line of the key in it: Some(Ok(true)) when that line has no value, and
\* the conversion of its value when it has one.
C36_BooleanLookup ==
    access.op = "boolean_filter" =>
        LET from == Answering(file, access.key, access.filter)
            last == CHOOSE i \in from : \A j \in from : j <= i
            line == LineAt(file[last].body, LastLine(file[last].body, access.key.name))
            converted == BooleanTryFrom(ValueOfLine(line))
        IN  IF from = { } THEN access.result = None
            ELSE /\ access.result # None
                 /\ IF ~HasValue(line)
                    THEN access.result[1].ok /\ access.result[1].value = TRUE
                    ELSE /\ access.result[1].ok = converted.ok
                         /\ access.result[1].value = converted.value

\* C36, the case: the last section under the header is rejected by the
\* filter, and the answer true is that of the key without a value in the
\* section before it
C36_Witness ==
    /\ access.op = "boolean_filter"
    /\ Len(file) = 2
    /\ Under(file, access.key) = { 1, 2 }
    /\ file[2].meta \notin access.filter
    /\ LastLine(file[2].body, access.key.name) # 0
    /\ file[1].body = Implicit(access.key.name)
    /\ access.result # None
    /\ access.result[1].ok /\ access.result[1].value = TRUE

\* the accessors that take a filter
FilteredAccessors ==
    { "raw_value_filter", "raw_values_filter", "string_filter", "path_filter",
      "boolean_filter", "integer_filter" }

\* what the accessor named op answers on the file f
Answer(op, f, key, flt) ==
    CASE op = "raw_value_filter" -> raw_value_filter(f, key, flt)
      [] op = "raw_values_filter" -> raw_values_filter(f, key, flt)
      [] op = "string_filter" -> string_filter(f, key, flt)
      [] op = "path_filter" -> path_filter(f, key, flt)
      [] op = "boolean_filter" -> boolean_filter(f, key, flt)
      [] op = "integer_filter" -> integer_filter(f, key, flt)

\* two results are the same Ok or the same Err
SameResult(a, b) == a.ok = b.ok /\ a.value = b.value

\* two results are the same Ok, or both some Err
SameButErrorKind(a, b) == a.ok = b.ok /\ (a.ok => a.value = b.value)

\* two answers of the accessor named op are the same
Same(op, a, b) ==
    IF op \in { "raw_value_filter", "raw_values_filter" } THEN SameResult(a, b)
    ELSE IF op \in { "string_filter", "path_filter" } THEN a = b
    ELSE /\ (a = None) = (b = None)
         /\ a # None => SameResult(a[1], b[1])

\* the file without the sections the filter rejects
Accepted(f, flt) == SelectSeq(f, LAMBDA s : s.meta \in flt)

\* the file with nothing written in the sections the filter rejects
Blanked(f, flt) ==
    [i \in 1..Len(f) |-> IF f[i].meta \in flt THEN f[i] ELSE [f[i] EXCEPT !.body = << >>]]

\* C37 as stated: Filter non-interference. After a call of a filtered
\* accessor the result is the one the accessor gives on the file without
\* its rejected sections, and on the file with its rejected sections empty:
\* files that differ only in rejected sections give the same result.
C37_FilterNonInterference ==
    access.op \in FilteredAccessors =>
        /\ Same(access.op, access.result,
                Answer(access.op, Accepted(file, access.filter), access.key, access.filter))
        /\ Same(access.op, access.result,
                Answer(access.op, Blanked(file, access.filter), access.key, access.filter))

\* C37, amended: the result is the one on the file with its rejected
\* sections empty; it is also the one on the file without its rejected
\* sections for string_filter, path_filter, boolean_filter and
\* integer_filter, and for raw_value_filter and raw_values_filter but for
\* which error it is.
C37_FilterNonInterferenceAmended ==
    access.op \in FilteredAccessors =>
        LET without == Answer(access.op, Accepted(file, access.filter), access.key,
                              access.filter)
            blank == Answer(access.op, Blanked(file, access.filter), access.key, access.filter)
        IN  /\ Same(access.op, access.result, blank)
            /\ IF access.op \in { "raw_value_filter", "raw_values_filter" }
               THEN SameButErrorKind(access.result, without)
               ELSE Same(access.op, access.result, without)

\* C37, the case: the last section under the header holds a value of the
\* key and is rejected, and the answer is the other value, which the
\* accepted section before it holds
C37_Witness ==
    /\ access.op = "string_filter"
    /\ Len(file) = 2
    /\ Under(file, access.key) = { 1, 2 }
    /\ file[2].meta \notin access.filter
    /\ file[1].meta \in access.filter
    /\ value(file[2].body, access.key.name) # None
    /\ value(file[1].body, access.key.name) # None
    /\ value(file[2].body, access.key.name) # value(file[1].body, access.key.name)
    /\ access.result = value(file[1].body, access.key.name)
====
